---- MODULE Spec2Model ----
(***************************************************************************)
(* Reconciliation engine of the Dew sync integration of the reader:        *)
(* the useDewSync hook (open flow, progress pull, notes pull, debounced    *)
(* progress and notes push, cleanup) and the mappers it uses.              *)
(*                                                                         *)
(* One book and one hook instance at a time are modelled.  JavaScript runs *)
(* a handler to its next await without interruption, so every asynchronous *)
(* handler is split at its awaits: one action for the code up to the       *)
(* transport call, one action for the continuation that receives the       *)
(* transport's answer.  The loop that merges a fetched batch of notes is   *)
(* stepped one remote note at a time; while it runs (pcNotesPull =         *)
(* "merge") no other action is enabled, so the loop stays uninterrupted.   *)
(***************************************************************************)
EXTENDS Integers, Sequences, FiniteSets, TLC

\* ------------------------------------------------------------------ bounds
MaxTime == 3
MaxPage == 3
MaxInFlight == 2
MaxCalls == 2

\* ------------------------------------------------------------- vocabulary
\* The three outcomes of a transport call (DewResult): success, a definitive
\* failure (success false, isNetworkError unset), a network-class failure.
Outcomes == {"ok", "fail", "net"}

\* currentPage / totalPages of a remote snapshot may be missing (?? null).
NullPage == -1

Times == 1..MaxTime
NoProgress == <<>>
ProgressValues == {NoProgress} \cup {<<p, MaxPage>> : p \in 1..MaxPage}
RemoteStatuses == {"", "reading", "completed"}
\* "" stands for an absent identifier (undefined is falsy, as "" is).
DocIds == {"d1", "d2"}

\* The document snapshot getDocument delivers (check.data).
RemoteDocs ==
  [updatedAt : 0..MaxTime, currentPage : {NullPage} \cup 0..(MaxPage - 1),
   totalPages : {NullPage, MaxPage}, readingStatus : RemoteStatuses]

\* Identifiers of notes: local notes made in the reader, remote notes, and
\* the local identifier `dew-${dewNote.id}` of an external remote note.
LeafNoteIds == {"n1", "n2"}
RemoteNoteIds == {"r1", "r2"}
ExternalId(remoteId) == IF remoteId = "r1" THEN "dew-r1" ELSE "dew-r2"
LocalNoteIds == LeafNoteIds \cup {ExternalId(r) : r \in RemoteNoteIds}

\* A BookNote, with the fields the reconciliation reads or writes.
\* deletedAt = 0 stands for an absent deletedAt (0, null, undefined are falsy).
BookNote(id, type, cfi, text, updatedAt, deletedAt) ==
  [id |-> id, type |-> type, cfi |-> cfi, text |-> text,
   updatedAt |-> updatedAt, deletedAt |-> deletedAt]

\* NoteMetadata of a remote note; leafNoteId = "" and updatedAt = 0 stand for
\* absent fields, NoMetadata for metadata = null.
NoMetadata == [leafNoteId |-> "", updatedAt |-> 0, deletedAt |-> 0]

\* A DewNote: remote id, server update time, metadata.
DewNote(id, updatedAt, metadata) ==
  [id |-> id, updatedAt |-> updatedAt, metadata |-> metadata]

VARIABLES
  now,                    \* Date.now()
  dewSync,                \* the resolved settings
  mounted,                \* a hook instance is mounted for the book
  dewDocumentId,          \* BookConfig.dewDocumentId
  progress,               \* book.progress / BookConfig.progress
  readingStatus,          \* book.readingStatus
  dewLastProgressSyncAt,  \* BookConfig.dewLastProgressSyncAt (0: unset)
  booknotes,              \* BookConfig.booknotes
  dewSyncedNoteIds,       \* BookConfig.dewSyncedNoteIds ("" : no entry)
  dewLastNotesSyncAt,     \* BookConfig.dewLastNotesSyncAt (0: unset)
  hasUploadedRef, uploadingRef, hasPulledProgressRef, hasPulledNotesRef,
  pcOpen,                 \* where doUpload of the instance is suspended
  openDocId,              \* currentConfig.dewDocumentId captured by the effect
  openLog,                \* transport answers of the open flow, newest last
  remoteDocSeen,          \* check.data handed to pullProgressOnOpen
  pcNotesPull,            \* where pullNotesOnOpen is: idle, fetch, merge
  pullCfg,                \* currentConfig captured by pullNotesOnOpen
  work,                   \* its locals: booknotes, syncedIds, changed
  remaining,              \* remote notes of the batch not yet merged
  seenRemoteIds,          \* remote ids of the batch merged so far
  lastRemote,             \* the remote note merged last
  mergedBatch,            \* the batch merged so far (kept when keepBatch)
  keepBatch,
  progressTimer,          \* the progress debouncer holds a pending call
  progressInFlight,       \* updateProgress calls awaiting the transport
  lastUpdate,             \* the last update handed to updateProgress
  notesTimer,             \* the notes debouncer holds a pending call
  notesCalls,             \* calls the pending notes timer coalesces
  notesPasses,            \* notes push passes awaiting the transport
  settingsDewSync,        \* settings.dewSync of the settings store
  env,                    \* NEXT_PUBLIC_DEW_API_KEY / NEXT_PUBLIC_DEW_API_URL
  library,                \* useLibraryStore's library
  syncingRef,             \* the library hook's single-flight flag
  pcLibrary,              \* where pullLibrary / pushLibrary is suspended
  libPass,                \* the locals of the library pass
  remoteLibrary,          \* titles of the documents the library push uploaded
  libLog,                 \* calls and answers of the library pass, newest last
  escaped,                \* passes that raised an error to their caller
  peer                    \* the locals of a second hook instance of the book

clockVars == <<now, dewSync>>
storeProgressVars == <<progress, readingStatus, dewLastProgressSyncAt>>
storeNotesVars == <<booknotes, dewSyncedNoteIds, dewLastNotesSyncAt>>
refVars == <<hasUploadedRef, uploadingRef, hasPulledProgressRef, hasPulledNotesRef>>
openVars == <<pcOpen, openDocId, openLog>>
notesPullVars ==
  <<pcNotesPull, pullCfg, work, remaining, seenRemoteIds, lastRemote,
    mergedBatch, keepBatch>>
progressPushVars == <<progressTimer, progressInFlight, lastUpdate>>
notesPushVars == <<notesTimer, notesCalls, notesPasses>>
libVars ==
  <<settingsDewSync, env, library, syncingRef, pcLibrary, libPass,
    remoteLibrary, libLog>>

vars ==
  <<clockVars, mounted, dewDocumentId, storeProgressVars, storeNotesVars,
    refVars, openVars, remoteDocSeen, notesPullVars, progressPushVars,
    notesPushVars, libVars, escaped, peer>>

\* ---------------------------------------------------------------- mappers
Max(a, b) == IF a >= b THEN a ELSE b

\* progressToUpdate: Leaf progress is 1-based, the remote currentPage 0-based.
ToRemotePageNoShift(current) == Max(0, current)
ToRemotePage(current) == Max(0, current - 1)

ToRemoteStatus(status) ==
  IF status = "finished" THEN "completed"
  ELSE IF status = "reading" THEN "reading" ELSE ""

progressToUpdate(documentId, bookProgress, bookStatus) ==
  [documentId |-> documentId, currentPage |-> ToRemotePage(bookProgress[1]),
   status |-> ToRemoteStatus(bookStatus)]

\* The remote page as a local page (dewDocumentToBook, pullProgressOnOpen).
ToLocalPage(remotePage) == remotePage + 1

\* book.progress?.[0] ?? 0
LocalCurrentPage(p) == IF p = NoProgress THEN 0 ELSE p[1]

\* "Furthest progress wins": the test pullProgressOnOpen applies.
RemoteWinsNotStrict(remoteUpdatedAt, localLastSync, remotePage, localPage) ==
  remoteUpdatedAt >= localLastSync /\ remotePage >= localPage
RemoteWins(remoteUpdatedAt, localLastSync, remotePage, localPage) ==
  remoteUpdatedAt > localLastSync /\ remotePage > localPage

\* metadata.updatedAt || new Date(dewNote.updatedAt).getTime()
RemoteUpdatedAt(dewNote) ==
  IF dewNote.metadata.updatedAt # 0 THEN dewNote.metadata.updatedAt
  ELSE dewNote.updatedAt

\* dewNoteToBookNote: a note that originated in Leaf is rebuilt from its
\* metadata, an external note becomes an annotation without CFI.
dewNoteToBookNote(dewNote) ==
  IF dewNote.metadata.leafNoteId # ""
  THEN BookNote(dewNote.metadata.leafNoteId, "annotation", "cfi", "text",
                RemoteUpdatedAt(dewNote), dewNote.metadata.deletedAt)
  ELSE BookNote(ExternalId(dewNote.id), "annotation", "", "text",
                dewNote.updatedAt, 0)

\* booknotes.findIndex((n) => n.id === id), 0 for -1.
FindIndex(notes, id) ==
  IF \E i \in 1..Len(notes) : notes[i].id = id
  THEN CHOOSE i \in 1..Len(notes) :
         notes[i].id = id /\ \A j \in 1..(i - 1) : notes[j].id # id
  ELSE 0

\* --------------------------------------------------------------- settings
Settings(enabled, syncProgress, syncNotes) ==
  [enabled |-> enabled, apiKey |-> TRUE, syncProgress |-> syncProgress,
   syncNotes |-> syncNotes]

\* ------------------------------------------------------- progress pull
\* pullProgressOnOpen(client, dewDocumentId, remoteDoc): it has no await, so
\* it runs to its end inside the continuation of getDocument that calls it.
\* Its result is the new (progress, readingStatus, dewLastProgressSyncAt,
\* hasPulledProgressRef).
PullResult(p, st, cur, ref) ==
  [progress |-> p, readingStatus |-> st, dewLastProgressSyncAt |-> cur,
   hasPulledProgressRef |-> ref]

pullProgressOnOpenAnyStatus(remoteDoc) ==
  IF hasPulledProgressRef
  THEN PullResult(progress, readingStatus, dewLastProgressSyncAt, TRUE)
  ELSE IF remoteDoc.currentPage = NullPage \/ remoteDoc.totalPages = NullPage
  THEN PullResult(progress, readingStatus, dewLastProgressSyncAt, TRUE)
  ELSE IF RemoteWins(remoteDoc.updatedAt, dewLastProgressSyncAt,
                     ToLocalPage(remoteDoc.currentPage), LocalCurrentPage(progress))
  THEN PullResult(<<ToLocalPage(remoteDoc.currentPage), remoteDoc.totalPages>>,
                  IF remoteDoc.readingStatus = "completed" THEN "finished"
                  ELSE IF remoteDoc.readingStatus = "reading" THEN "reading"
                  ELSE readingStatus,
                  now, TRUE)
  ELSE PullResult(progress, readingStatus, now, TRUE)
pullProgressOnOpen(remoteDoc) ==
  IF hasPulledProgressRef
  THEN PullResult(progress, readingStatus, dewLastProgressSyncAt, TRUE)
  ELSE IF remoteDoc.currentPage = NullPage \/ remoteDoc.totalPages = NullPage
  THEN PullResult(progress, readingStatus, dewLastProgressSyncAt, TRUE)
  ELSE IF RemoteWins(remoteDoc.updatedAt, dewLastProgressSyncAt,
                     ToLocalPage(remoteDoc.currentPage), LocalCurrentPage(progress))
  THEN PullResult(<<ToLocalPage(remoteDoc.currentPage), remoteDoc.totalPages>>,
                  IF remoteDoc.readingStatus = "completed" /\ readingStatus # "finished"
                  THEN "finished" ELSE readingStatus,
                  now, TRUE)
  ELSE PullResult(progress, readingStatus, now, TRUE)

\* ---------------------------------------------------------- notes pull
\* The locals of the merge loop of pullNotesOnOpen.
Work(notes, syncedIds, changed) ==
  [booknotes |-> notes, syncedIds |-> syncedIds, changed |-> changed]

NoWork == Work(<<>>, [id \in LocalNoteIds |-> ""], FALSE)

\* localNote.updatedAt > metadata.deletedAt: the local un-deletion wins.
LocalUndeleteWinsNotStrict(localNote, metadata) ==
  localNote.updatedAt >= metadata.deletedAt
LocalUndeleteWins(localNote, metadata) ==
  localNote.updatedAt > metadata.deletedAt

\* remoteUpdatedAt > localNote.updatedAt: last writer wins, ties keep local.
RemoteNoteWinsOnTie(remoteUpdatedAt, localNote) ==
  remoteUpdatedAt >= localNote.updatedAt
RemoteNoteWins(remoteUpdatedAt, localNote) ==
  remoteUpdatedAt > localNote.updatedAt

\* One turn of "for (const remoteNote of remoteNotes)".
MergeNote(w, remoteNote) ==
  LET remoteBookNote == dewNoteToBookNote(remoteNote)
      metadata == remoteNote.metadata
  IN
  IF metadata.leafNoteId # ""
  THEN LET localIdx == FindIndex(w.booknotes, metadata.leafNoteId)
           tracked == [w.syncedIds EXCEPT ![metadata.leafNoteId] = remoteNote.id]
       IN
       IF localIdx # 0
       THEN LET localNote == w.booknotes[localIdx] IN
            IF metadata.deletedAt # 0
            THEN IF LocalUndeleteWins(localNote, metadata)
                 THEN w
                 ELSE Work([w.booknotes EXCEPT ![localIdx].deletedAt = metadata.deletedAt],
                           w.syncedIds, TRUE)
            ELSE IF RemoteNoteWins(RemoteUpdatedAt(remoteNote), localNote)
                 THEN Work([w.booknotes EXCEPT ![localIdx] = remoteBookNote], tracked, TRUE)
                 ELSE Work(w.booknotes, tracked, w.changed)
       ELSE Work(Append(w.booknotes, remoteBookNote), tracked, TRUE)
  ELSE IF FindIndex(w.booknotes, remoteBookNote.id) = 0
       THEN Work(Append(w.booknotes, remoteBookNote),
                 [w.syncedIds EXCEPT ![remoteBookNote.id] = remoteNote.id], TRUE)
       ELSE w

\* The whole loop over a batch.
RECURSIVE MergeAll(_, _)
MergeAll(w, batch) ==
  IF batch = <<>> THEN w ELSE MergeAll(MergeNote(w, Head(batch)), Tail(batch))

\* pullNotesOnOpen up to "await client.getDocumentNotes(...)": the values
\* it leaves in (hasPulledNotesRef, pcNotesPull, pullCfg).
NotesPullStart ==
  IF hasPulledNotesRef
  THEN <<TRUE, pcNotesPull, pullCfg>>
  ELSE <<TRUE, "fetch",
         [booknotes |-> booknotes, dewSyncedNoteIds |-> dewSyncedNoteIds]>>

\* ------------------------------------------------------------ debounce
\* debounce(fn, DEW_SYNC_DEBOUNCE_MS) of @/utils/debounce: a call arms the
\* timer or resets the armed one; when the timer elapses the pending call
\* runs once; flush() runs the pending call at once, if there is one.
\* notesCalls counts the calls the pending timer stands for, up to MaxCalls.
Min(a, b) == IF a <= b THEN a ELSE b
DebounceCalls(timer, calls) == IF timer THEN Min(calls + 1, MaxCalls) ELSE 1

\* The merge loop is not running (a handler runs to its next await).
NoLoop == pcNotesPull # "merge"

\* --------------------------------------------------- progress push (body)
\* The callback of debouncedProgressSync up to "await client.updateProgress":
\* the values it leaves in (progressInFlight, lastUpdate) when it is run,
\* by the timer or by flush().
ProgressSyncStart(run, trigger) ==
  IF run /\ dewSync.enabled /\ dewSync.syncProgress
     /\ dewDocumentId # "" /\ progress # NoProgress
  THEN <<progressInFlight + 1,
         [kind |-> "update", trigger |-> trigger, local |-> progress[1],
          update |-> progressToUpdate(dewDocumentId, progress, readingStatus)]>>
  ELSE <<progressInFlight, lastUpdate>>

\* ------------------------------------------------------ notes push (body)
\* The filter without its test of the note's type.
IsNewNoteAnyKind(n, syncedIds) ==
  /\ n.deletedAt = 0
  /\ n.text # ""
  /\ syncedIds[n.id] = ""
\* The filter of debouncedNotesSync.
IsNewNote(n, syncedIds) ==
  /\ n.type \in {"annotation", "excerpt"}
  /\ n.deletedAt = 0
  /\ n.text # ""
  /\ syncedIds[n.id] = ""

NewNotesFirstOnly(notes, syncedIds) ==
  LET all == SelectSeq(notes, LAMBDA n : IsNewNote(n, syncedIds))
  IN IF all = <<>> THEN <<>> ELSE <<Head(all)>>
NewNotes(notes, syncedIds) == SelectSeq(notes, LAMBDA n : IsNewNote(n, syncedIds))

\* Object.keys(syncedIds).length
KeyCount(syncedIds) == Cardinality({id \in DOMAIN syncedIds : syncedIds[id] # ""})

\* The callback of debouncedNotesSync up to its first "await client.addNote":
\* the passes in flight after it is run, by the timer or by flush().
NotesSyncStart(run, trigger) ==
  IF run /\ dewSync.enabled /\ dewSync.syncNotes /\ dewDocumentId # ""
     /\ NewNotes(booknotes, dewSyncedNoteIds) # <<>>
  THEN Append(notesPasses,
              [newNotes |-> NewNotes(booknotes, dewSyncedNoteIds), i |-> 1,
               step |-> "add", noteId |-> "",
               documentId |-> dewDocumentId,
               syncedIds |-> dewSyncedNoteIds,
               updatedSyncedIds |-> dewSyncedNoteIds,
               calls |-> notesCalls, trigger |-> trigger])
  ELSE notesPasses

\* ----------------------------------------------------------- open flow
\* A new hook instance: its refs are false, its effects run.  The effect
\* "Upload on first open + pull remote state" runs doUpload to its first
\* await, the effect on config?.booknotes calls debouncedNotesSync().  An
\* instance is mounted after the open flow and the notes pull of the
\* instance before it have ended.
Mount ==
  /\ NoLoop
  /\ ~mounted
  /\ pcOpen \in {"idle", "done"}
  /\ pcNotesPull = "idle"
  /\ mounted' = TRUE
  /\ hasUploadedRef' = FALSE
  /\ hasPulledProgressRef' = FALSE
  /\ hasPulledNotesRef' = FALSE
  /\ IF dewSync.enabled /\ dewSync.apiKey
     THEN IF dewDocumentId # ""
          THEN /\ pcOpen' = "check"
               /\ openDocId' = dewDocumentId
               /\ uploadingRef' = FALSE
               /\ openLog' = <<<<"getDocument", "call">>>>
          ELSE /\ pcOpen' = "search"
               /\ openDocId' = ""
               /\ uploadingRef' = TRUE
               /\ openLog' = <<<<"searchDocument", "call">>>>
     ELSE pcOpen' = "idle" /\ openDocId' = "" /\ uploadingRef' = FALSE /\ openLog' = <<>>
  /\ notesTimer' = TRUE
  /\ notesCalls' = 1
  /\ UNCHANGED <<peer, libVars, escaped, clockVars, dewDocumentId, storeProgressVars, storeNotesVars,
                 remoteDocSeen, notesPullVars, progressPushVars, notesPasses>>

\* doUpload after "await client.getDocument(currentConfig.dewDocumentId)".
CheckDone(outcome, remoteDoc) ==
  /\ NoLoop
  /\ pcOpen = "check"
  /\ IF outcome = "ok"
     THEN /\ hasUploadedRef' = TRUE
          /\ pcOpen' = "done"
          /\ openLog' = Append(openLog, <<"getDocument", outcome>>)
          /\ IF dewSync.syncProgress
             THEN LET r == pullProgressOnOpen(remoteDoc) IN
                  /\ progress' = r.progress
                  /\ readingStatus' = r.readingStatus
                  /\ dewLastProgressSyncAt' = r.dewLastProgressSyncAt
                  /\ hasPulledProgressRef' = r.hasPulledProgressRef
                  /\ remoteDocSeen' = remoteDoc
             ELSE UNCHANGED <<storeProgressVars, hasPulledProgressRef, remoteDocSeen>>
          /\ IF dewSync.syncNotes
             THEN /\ hasPulledNotesRef' = NotesPullStart[1]
                  /\ pcNotesPull' = NotesPullStart[2]
                  /\ pullCfg' = NotesPullStart[3]
             ELSE UNCHANGED <<hasPulledNotesRef, pcNotesPull, pullCfg>>
          /\ UNCHANGED <<dewDocumentId, uploadingRef>>
     ELSE \* "Document not found -- clear and re-upload"
          /\ dewDocumentId' = ""
          /\ uploadingRef' = TRUE
          /\ pcOpen' = "search"
          /\ openLog' = openLog \o <<<<"getDocument", outcome>>, <<"searchDocument", "call">>>>
          /\ UNCHANGED <<hasUploadedRef, storeProgressVars, hasPulledProgressRef,
                         remoteDocSeen, hasPulledNotesRef, pcNotesPull, pullCfg>>
  /\ UNCHANGED <<peer, libVars, escaped, clockVars, mounted, storeNotesVars, openDocId, work, remaining,
                 seenRemoteIds, lastRemote, mergedBatch, keepBatch,
                 progressPushVars, notesPushVars>>

\* doUpload after "await client.searchDocument(book.title)"; foundId is
\* searchResult.data?.id, "" when the search found nothing.
SearchDone(outcome, foundId) ==
  /\ NoLoop
  /\ pcOpen = "search"
  /\ outcome # "ok" => foundId = ""
  /\ IF outcome = "ok" /\ foundId # ""
     THEN /\ dewDocumentId' = foundId
          /\ hasUploadedRef' = TRUE
          /\ uploadingRef' = FALSE
          /\ pcOpen' = "done"
          /\ openLog' = Append(openLog, <<"searchDocument", outcome>>)
     ELSE /\ pcOpen' = "load"
          /\ openLog' = Append(openLog, <<"searchDocument", outcome>>)
          /\ UNCHANGED <<dewDocumentId, hasUploadedRef, uploadingRef>>
  /\ UNCHANGED <<peer, libVars, escaped, clockVars, mounted, storeProgressVars, storeNotesVars,
                 hasPulledProgressRef, hasPulledNotesRef, openDocId,
                 remoteDocSeen, notesPullVars, progressPushVars, notesPushVars>>

\* doUpload after "await appService.loadBookContent(book)" and
\* "await file.arrayBuffer()"; load is the blob's size, or "throws".
LoadDoneUncaught(load) ==
  /\ NoLoop
  /\ pcOpen = "load"
  /\ IF load = "throws" \/ load = "0"
     THEN /\ uploadingRef' = FALSE
          /\ pcOpen' = "done"
          /\ openLog' = Append(openLog, <<"loadBookContent", load>>)
          /\ escaped' = IF load = "throws" THEN escaped \cup {"doUpload"} ELSE escaped
     ELSE /\ pcOpen' = "upload"
          /\ openLog' = openLog \o <<<<"loadBookContent", load>>, <<"uploadDocument", "call">>>>
          /\ UNCHANGED <<uploadingRef, escaped>>
  /\ UNCHANGED <<peer, libVars, clockVars, mounted, dewDocumentId, storeProgressVars,
                 storeNotesVars, hasUploadedRef, hasPulledProgressRef,
                 hasPulledNotesRef, openDocId, remoteDocSeen, notesPullVars,
                 progressPushVars, notesPushVars>>
LoadDone(load) ==
  /\ NoLoop
  /\ pcOpen = "load"
  /\ IF load = "throws" \/ load = "0"
     THEN /\ uploadingRef' = FALSE
          /\ pcOpen' = "done"
          /\ openLog' = Append(openLog, <<"loadBookContent", load>>)
     ELSE /\ pcOpen' = "upload"
          /\ openLog' = openLog \o <<<<"loadBookContent", load>>, <<"uploadDocument", "call">>>>
          /\ UNCHANGED uploadingRef
  /\ UNCHANGED <<peer, libVars, escaped, clockVars, mounted, dewDocumentId, storeProgressVars,
                 storeNotesVars, hasUploadedRef, hasPulledProgressRef,
                 hasPulledNotesRef, openDocId, remoteDocSeen, notesPullVars,
                 progressPushVars, notesPushVars>>

\* doUpload after "await client.uploadDocument(blob, uploadOpts)".
UploadDone(outcome, id) ==
  /\ NoLoop
  /\ pcOpen = "upload"
  /\ IF outcome = "ok"
     THEN dewDocumentId' = id /\ hasUploadedRef' = TRUE
     ELSE UNCHANGED <<dewDocumentId, hasUploadedRef>>
  /\ uploadingRef' = FALSE
  /\ pcOpen' = "done"
  /\ openLog' = Append(openLog, <<"uploadDocument", outcome>>)
  /\ UNCHANGED <<peer, libVars, escaped, clockVars, mounted, storeProgressVars, storeNotesVars,
                 hasPulledProgressRef, hasPulledNotesRef, openDocId,
                 remoteDocSeen, notesPullVars, progressPushVars, notesPushVars>>

\* ----------------------------------------------------------- notes pull
NoRemote == DewNote("", 0, NoMetadata)

\* pullNotesOnOpen has returned: its captured currentConfig is gone.
NoCfg == [booknotes |-> <<>>, dewSyncedNoteIds |-> [id \in LocalNoteIds |-> ""]]

\* pullNotesOnOpen after "await client.getDocumentNotes(dewDocumentId, since)";
\* size is remoteNotes.length.
NotesFetchDone(outcome, size) ==
  /\ NoLoop
  /\ pcNotesPull = "fetch"
  /\ outcome # "ok" => size = 0
  /\ IF outcome # "ok"
     THEN /\ pcNotesPull' = "idle"
          /\ pullCfg' = NoCfg
          /\ UNCHANGED <<dewLastNotesSyncAt, work, remaining>>
     ELSE IF size = 0
     THEN /\ pcNotesPull' = "idle"
          /\ pullCfg' = NoCfg
          /\ dewLastNotesSyncAt' = now
          /\ UNCHANGED <<work, remaining>>
     ELSE /\ pcNotesPull' = "merge"
          /\ work' = Work(pullCfg.booknotes, pullCfg.dewSyncedNoteIds, FALSE)
          /\ remaining' = size
          /\ UNCHANGED <<dewLastNotesSyncAt, pullCfg>>
  /\ UNCHANGED <<peer, libVars, escaped, clockVars, mounted, dewDocumentId, storeProgressVars, booknotes,
                 dewSyncedNoteIds, refVars, openVars, remoteDocSeen,
                 seenRemoteIds, lastRemote, mergedBatch, keepBatch,
                 progressPushVars, notesPushVars>>

\* One turn of the merge loop, on the next remote note of the batch.  A
\* batch holds a remote note once.
MergeStep(remoteNote) ==
  /\ pcNotesPull = "merge"
  /\ remaining > 0
  /\ remoteNote.id \notin seenRemoteIds
  /\ work' = MergeNote(work, remoteNote)
  /\ remaining' = remaining - 1
  /\ seenRemoteIds' = seenRemoteIds \cup {remoteNote.id}
  /\ lastRemote' = remoteNote
  /\ mergedBatch' = IF keepBatch THEN Append(mergedBatch, remoteNote) ELSE mergedBatch
  /\ UNCHANGED <<peer, libVars, escaped, clockVars, mounted, dewDocumentId, storeProgressVars,
                 storeNotesVars, refVars, openVars, remoteDocSeen, pcNotesPull,
                 pullCfg, keepBatch, progressPushVars, notesPushVars>>

\* pullNotesOnOpen after the loop: "if (changed) setConfig(...) else ...".
\* A new booknotes array makes the effect on config?.booknotes of the
\* mounted instance call debouncedNotesSync().
MergeEndKeepsCursor ==
  /\ pcNotesPull = "merge"
  /\ remaining = 0
  /\ IF work.changed
     THEN /\ booknotes' = work.booknotes
          /\ dewSyncedNoteIds' = work.syncedIds
          /\ dewLastNotesSyncAt' = now
          /\ IF mounted
             THEN /\ notesCalls' = DebounceCalls(notesTimer, notesCalls)
                  /\ notesTimer' = TRUE
             ELSE UNCHANGED <<notesTimer, notesCalls>>
     ELSE UNCHANGED <<dewLastNotesSyncAt, booknotes, dewSyncedNoteIds, notesTimer, notesCalls>>
  /\ pcNotesPull' = "idle"
  /\ pullCfg' = NoCfg
  /\ work' = NoWork
  /\ seenRemoteIds' = {}
  /\ lastRemote' = NoRemote
  /\ mergedBatch' = <<>>
  /\ UNCHANGED <<peer, libVars, escaped, clockVars, mounted, dewDocumentId, storeProgressVars, refVars,
                 openVars, remoteDocSeen, remaining, keepBatch,
                 progressPushVars, notesPasses>>
MergeEnd ==
  /\ pcNotesPull = "merge"
  /\ remaining = 0
  /\ IF work.changed
     THEN /\ booknotes' = work.booknotes
          /\ dewSyncedNoteIds' = work.syncedIds
          /\ dewLastNotesSyncAt' = now
          /\ IF mounted
             THEN /\ notesCalls' = DebounceCalls(notesTimer, notesCalls)
                  /\ notesTimer' = TRUE
             ELSE UNCHANGED <<notesTimer, notesCalls>>
     ELSE /\ dewLastNotesSyncAt' = now
          /\ UNCHANGED <<booknotes, dewSyncedNoteIds, notesTimer, notesCalls>>
  /\ pcNotesPull' = "idle"
  /\ pullCfg' = NoCfg
  /\ work' = NoWork
  /\ seenRemoteIds' = {}
  /\ lastRemote' = NoRemote
  /\ mergedBatch' = <<>>
  /\ UNCHANGED <<peer, libVars, escaped, clockVars, mounted, dewDocumentId, storeProgressVars, refVars,
                 openVars, remoteDocSeen, remaining, keepBatch,
                 progressPushVars, notesPasses>>

\* ------------------------------------------------------------ the reader
\* The reader relocates to page p: book.progress changes and, with sync
\* enabled, the effect on progress?.location calls debouncedProgressSync().
PageTurn(p) ==
  /\ NoLoop
  /\ mounted
  /\ progress # <<p, MaxPage>>
  /\ progress' = <<p, MaxPage>>
  /\ progressTimer' = (progressTimer \/ dewSync.enabled)
  /\ UNCHANGED <<peer, libVars, escaped, clockVars, mounted, dewDocumentId, readingStatus,
                 dewLastProgressSyncAt, storeNotesVars, refVars, openVars,
                 remoteDocSeen, notesPullVars, progressInFlight, lastUpdate,
                 notesPushVars>>

\* The user makes a note: booknotes changes, the effect on config?.booknotes
\* calls debouncedNotesSync().
NoteAdd(id, text) ==
  /\ NoLoop
  /\ mounted
  /\ FindIndex(booknotes, id) = 0
  /\ booknotes' = Append(booknotes, BookNote(id, "annotation", "cfi", text, now, 0))
  /\ notesCalls' = DebounceCalls(notesTimer, notesCalls)
  /\ notesTimer' = TRUE
  /\ UNCHANGED <<peer, libVars, escaped, clockVars, mounted, dewDocumentId, storeProgressVars,
                 dewSyncedNoteIds, dewLastNotesSyncAt, refVars, openVars,
                 remoteDocSeen, notesPullVars, progressPushVars, notesPasses>>

\* The user deletes a note: it keeps its place, with deletedAt set.
NoteDelete(id) ==
  /\ NoLoop
  /\ mounted
  /\ FindIndex(booknotes, id) # 0
  /\ booknotes[FindIndex(booknotes, id)].deletedAt = 0
  /\ booknotes' = [booknotes EXCEPT ![FindIndex(booknotes, id)].deletedAt = now,
                                    ![FindIndex(booknotes, id)].updatedAt = now]
  /\ notesCalls' = DebounceCalls(notesTimer, notesCalls)
  /\ notesTimer' = TRUE
  /\ UNCHANGED <<peer, libVars, escaped, clockVars, mounted, dewDocumentId, storeProgressVars,
                 dewSyncedNoteIds, dewLastNotesSyncAt, refVars, openVars,
                 remoteDocSeen, notesPullVars, progressPushVars, notesPasses>>

Tick ==
  /\ NoLoop
  /\ now < MaxTime
  /\ now' = now + 1
  /\ UNCHANGED <<peer, libVars, escaped, dewSync, mounted, dewDocumentId,
                 storeProgressVars, storeNotesVars, refVars, openVars,
                 remoteDocSeen, notesPullVars, progressPushVars, notesPushVars>>

\* -------------------------------------------------------- progress push
\* The progress timer elapses: the callback of debouncedProgressSync runs.
ProgressTimerFire ==
  /\ NoLoop
  /\ progressTimer
  /\ progressInFlight < MaxInFlight
  /\ progressTimer' = FALSE
  /\ progressInFlight' = ProgressSyncStart(TRUE, "timer")[1]
  /\ lastUpdate' = ProgressSyncStart(TRUE, "timer")[2]
  /\ UNCHANGED <<peer, libVars, escaped, clockVars, mounted, dewDocumentId, storeProgressVars,
                 storeNotesVars, refVars, openVars, remoteDocSeen,
                 notesPullVars, notesPushVars>>

\* The callback after "await client.updateProgress(update)".
ProgressPushDoneClears(outcome) ==
  /\ NoLoop
  /\ progressInFlight > 0
  /\ progressInFlight' = progressInFlight - 1
  /\ dewLastProgressSyncAt' = IF outcome = "ok" THEN now ELSE 0
  /\ UNCHANGED <<peer, libVars, escaped, clockVars, mounted, dewDocumentId, progress, readingStatus,
                 storeNotesVars, refVars, openVars, remoteDocSeen,
                 notesPullVars, progressTimer, lastUpdate, notesPushVars>>
ProgressPushDone(outcome) ==
  /\ NoLoop
  /\ progressInFlight > 0
  /\ progressInFlight' = progressInFlight - 1
  /\ dewLastProgressSyncAt' = IF outcome = "ok" THEN now ELSE dewLastProgressSyncAt
  /\ UNCHANGED <<peer, libVars, escaped, clockVars, mounted, dewDocumentId, progress, readingStatus,
                 storeNotesVars, refVars, openVars, remoteDocSeen,
                 notesPullVars, progressTimer, lastUpdate, notesPushVars>>

\* ----------------------------------------------------------- notes push
\* The notes timer elapses: the callback of debouncedNotesSync runs.
NotesTimerFire ==
  /\ NoLoop
  /\ notesTimer
  /\ Len(notesPasses) < MaxInFlight
  /\ notesTimer' = FALSE
  /\ notesCalls' = 0
  /\ notesPasses' = NotesSyncStart(TRUE, "timer")
  /\ UNCHANGED <<peer, libVars, escaped, clockVars, mounted, dewDocumentId, storeProgressVars,
                 storeNotesVars, refVars, openVars, remoteDocSeen,
                 notesPullVars, progressPushVars>>

RemoveAt(seq, k) == SubSeq(seq, 1, k - 1) \o SubSeq(seq, k + 1, Len(seq))

\* Pass k goes on after the turn of its loop for note i, with its
\* updatedSyncedIds: the next addNote, or the end of the callback.
NextNote(k, updated) ==
  LET pass == notesPasses[k] IN
  IF pass.i < Len(pass.newNotes)
  THEN /\ notesPasses' = [notesPasses EXCEPT ![k] =
                           [pass EXCEPT !.i = pass.i + 1, !.step = "add",
                                        !.noteId = "", !.updatedSyncedIds = updated]]
       /\ UNCHANGED dewSyncedNoteIds
  ELSE /\ notesPasses' = RemoveAt(notesPasses, k)
       /\ dewSyncedNoteIds' = IF KeyCount(updated) > KeyCount(pass.syncedIds)
                              THEN updated ELSE dewSyncedNoteIds

\* The callback recording the placeholder whatever addNote answered.
AddNoteDoneRecordsFailure(k, outcome, remoteId) ==
  /\ NoLoop
  /\ k \in 1..Len(notesPasses)
  /\ notesPasses[k].step = "add"
  /\ outcome # "ok" => remoteId = ""
  /\ LET pass == notesPasses[k]
         note == pass.newNotes[pass.i]
     IN
     IF outcome = "ok"
     THEN IF remoteId # ""
          THEN /\ notesPasses' = [notesPasses EXCEPT ![k].step = "meta",
                                                     ![k].noteId = remoteId]
               /\ UNCHANGED dewSyncedNoteIds
          ELSE NextNote(k, [pass.updatedSyncedIds EXCEPT ![note.id] = note.id])
     ELSE NextNote(k, [pass.updatedSyncedIds EXCEPT ![note.id] = note.id])
  /\ UNCHANGED <<peer, libVars, escaped, clockVars, mounted, dewDocumentId, storeProgressVars,
                 booknotes, dewLastNotesSyncAt, refVars, openVars,
                 remoteDocSeen, notesPullVars, progressPushVars, notesTimer,
                 notesCalls>>
\* The callback after "await client.addNote(...)"; remoteId is
\* result.data?.id || ''.
AddNoteDone(k, outcome, remoteId) ==
  /\ NoLoop
  /\ k \in 1..Len(notesPasses)
  /\ notesPasses[k].step = "add"
  /\ outcome # "ok" => remoteId = ""
  /\ LET pass == notesPasses[k]
         note == pass.newNotes[pass.i]
     IN
     IF outcome = "ok"
     THEN IF remoteId # ""
          THEN /\ notesPasses' = [notesPasses EXCEPT ![k].step = "meta",
                                                     ![k].noteId = remoteId]
               /\ UNCHANGED dewSyncedNoteIds
          ELSE NextNote(k, [pass.updatedSyncedIds EXCEPT ![note.id] = note.id])
     ELSE NextNote(k, pass.updatedSyncedIds)
  /\ UNCHANGED <<peer, libVars, escaped, clockVars, mounted, dewDocumentId, storeProgressVars,
                 booknotes, dewLastNotesSyncAt, refVars, openVars,
                 remoteDocSeen, notesPullVars, progressPushVars, notesTimer,
                 notesCalls>>

\* The callback after "await client.updateNote(noteId, { metadata })".
UpdateNoteDone(k, outcome) ==
  /\ NoLoop
  /\ k \in 1..Len(notesPasses)
  /\ notesPasses[k].step = "meta"
  /\ LET pass == notesPasses[k]
         note == pass.newNotes[pass.i]
     IN NextNote(k, [pass.updatedSyncedIds EXCEPT ![note.id] = pass.noteId])
  /\ UNCHANGED <<peer, libVars, escaped, clockVars, mounted, dewDocumentId, storeProgressVars,
                 booknotes, dewLastNotesSyncAt, refVars, openVars,
                 remoteDocSeen, notesPullVars, progressPushVars, notesTimer,
                 notesCalls>>

\* -------------------------------------------------------------- cleanup
\* The cleanup of the instance: debouncedProgressSync.flush() and
\* debouncedNotesSync.flush().
UnmountDropsNotes ==
  /\ NoLoop
  /\ mounted
  /\ progressTimer => progressInFlight < MaxInFlight
  /\ notesTimer => Len(notesPasses) < MaxInFlight
  /\ mounted' = FALSE
  /\ progressInFlight' = ProgressSyncStart(progressTimer, "flush")[1]
  /\ lastUpdate' = ProgressSyncStart(progressTimer, "flush")[2]
  /\ notesPasses' = notesPasses
  /\ progressTimer' = FALSE
  /\ notesTimer' = FALSE
  /\ notesCalls' = 0
  /\ UNCHANGED <<peer, libVars, escaped, clockVars, dewDocumentId, storeProgressVars, storeNotesVars,
                 refVars, openVars, remoteDocSeen, notesPullVars>>
Unmount ==
  /\ NoLoop
  /\ mounted
  /\ progressTimer => progressInFlight < MaxInFlight
  /\ notesTimer => Len(notesPasses) < MaxInFlight
  /\ mounted' = FALSE
  /\ progressInFlight' = ProgressSyncStart(progressTimer, "flush")[1]
  /\ lastUpdate' = ProgressSyncStart(progressTimer, "flush")[2]
  /\ notesPasses' = NotesSyncStart(notesTimer, "flush")
  /\ progressTimer' = FALSE
  /\ notesTimer' = FALSE
  /\ notesCalls' = 0
  /\ UNCHANGED <<peer, libVars, escaped, clockVars, dewDocumentId, storeProgressVars, storeNotesVars,
                 refVars, openVars, remoteDocSeen, notesPullVars>>

\* ------------------------------------------------------ second instance
\* The locals of a hook instance: its refs, where its doUpload is
\* suspended, the currentConfig.dewDocumentId its effect captured, the
\* answers its open flow got, and its debouncers.
Instance(isMounted, uploaded, uploading, pulledProgress, pulledNotes, pc, docId, log, pTimer, nTimer, nCalls) ==
  [mounted |-> isMounted, hasUploadedRef |-> uploaded, uploadingRef |-> uploading,
   hasPulledProgressRef |-> pulledProgress, hasPulledNotesRef |-> pulledNotes,
   pcOpen |-> pc, openDocId |-> docId, openLog |-> log,
   progressTimer |-> pTimer, notesTimer |-> nTimer, notesCalls |-> nCalls]

\* No second instance has been made.
NoPeer == Instance(FALSE, FALSE, FALSE, FALSE, FALSE, "idle", "", <<>>, FALSE, FALSE, 0)

\* The refs of useDewSync are made by useRef in each hook instance; the
\* book's config is in the store all instances share.  OtherInstance hands
\* the turn to the other instance of the book: from here on the actions
\* run its handlers on its locals.  pullNotesOnOpen's locals stay with the
\* instance that made them, so the turn passes while none is running.
OtherInstance ==
  /\ pcNotesPull = "idle"
  /\ peer' = Instance(mounted, hasUploadedRef, uploadingRef, hasPulledProgressRef,
                      hasPulledNotesRef, pcOpen, openDocId, openLog,
                      progressTimer, notesTimer, notesCalls)
  /\ mounted' = peer.mounted
  /\ hasUploadedRef' = peer.hasUploadedRef
  /\ uploadingRef' = peer.uploadingRef
  /\ hasPulledProgressRef' = peer.hasPulledProgressRef
  /\ hasPulledNotesRef' = peer.hasPulledNotesRef
  /\ pcOpen' = peer.pcOpen
  /\ openDocId' = peer.openDocId
  /\ openLog' = peer.openLog
  /\ progressTimer' = peer.progressTimer
  /\ notesTimer' = peer.notesTimer
  /\ notesCalls' = peer.notesCalls
  /\ UNCHANGED <<libVars, escaped, clockVars, dewDocumentId, storeProgressVars,
                 storeNotesVars, remoteDocSeen, notesPullVars, progressInFlight,
                 lastUpdate, notesPasses>>

\* ------------------------------------------------------------- settings
\* A DewSyncSettings record as the settings store holds it. A field the
\* stored record lacks reads as Missing (undefined); lastLibrarySyncAt is
\* 0 while unset. The store holds <<>> while settings.dewSync is undefined.
Missing == "undefined"
DewSyncSettings(enabled, apiKey, apiUrl, syncProgress, syncNotes, syncLibrary, cursor) ==
  [enabled |-> enabled, apiKey |-> apiKey, apiUrl |-> apiUrl,
   syncProgress |-> syncProgress, syncNotes |-> syncNotes,
   syncLibrary |-> syncLibrary, lastLibrarySyncAt |-> cursor]

DEFAULT_DEW_SYNC_SETTINGS ==
  DewSyncSettings("false", "", "http://localhost:8080", "true", "true", "true", 0)

\* JavaScript truthiness of a flag and of a string field.
IsTrue(flag) == flag = "true"
NonEmpty(str) == str # "" /\ str # Missing

\* process.env[...] ?? '' of the two environment variables.
Env(apiKey, apiUrl) == [apiKey |-> apiKey, apiUrl |-> apiUrl]

\* The environment branch both versions of resolveDewSyncSettings share.
WithEnv(base, e) ==
  IF e.apiKey # "" /\ ~NonEmpty(base.apiKey)
  THEN [base EXCEPT !.enabled = "true", !.apiKey = e.apiKey,
                    !.apiUrl = IF e.apiUrl # "" THEN e.apiUrl ELSE base.apiUrl]
  ELSE base

\* resolveDewSyncSettings of the library hook: stored ?? DEFAULT.
resolveDewSyncSettings(stored, e) ==
  WithEnv(IF stored = <<>> THEN DEFAULT_DEW_SYNC_SETTINGS ELSE stored[1], e)

\* { ...DEFAULT_DEW_SYNC_SETTINGS, ...(stored ?? {}) }
MergeDefaults(stored) ==
  IF stored = <<>> THEN DEFAULT_DEW_SYNC_SETTINGS
  ELSE [f \in DOMAIN DEFAULT_DEW_SYNC_SETTINGS |->
          IF f = "lastLibrarySyncAt" THEN stored[1][f]
          ELSE IF stored[1][f] = Missing THEN DEFAULT_DEW_SYNC_SETTINGS[f]
          ELSE stored[1][f]]

\* resolveDewSyncSettings of the reader hook: stored merged over defaults.
readerResolveDewSyncSettings(stored, e) == WithEnv(MergeDefaults(stored), e)

\* "!dewSync.enabled || !dewSync.apiKey || !dewSync.syncLibrary" is false.
LibrarySyncOn(resolved) ==
  IsTrue(resolved.enabled) /\ NonEmpty(resolved.apiKey) /\ IsTrue(resolved.syncLibrary)

\* -------------------------------------------------------------- library
\* The remote documents listDocuments can deliver, in the server's order.
LibraryDocIds == <<"x1", "x2", "x3">>

DewDocument(id) ==
  IF id = "x1"
  THEN [id |-> id, title |-> "Dune", author |-> "Herbert", readingStatus |-> "completed"]
  ELSE IF id = "x2"
  THEN [id |-> id, title |-> "Emma", author |-> "", readingStatus |-> ""]
  ELSE [id |-> id, title |-> " emma", author |-> "", readingStatus |-> "reading"]

\* s.toLowerCase().trim() on the strings of the model.
Normalize(s) ==
  IF s \in {"Emma", " emma", "emma"} THEN "emma"
  ELSE IF s \in {"Dune", "dune"} THEN "dune"
  ELSE IF s \in {"Herbert", "herbert"} THEN "herbert"
  ELSE s

\* A Book of the library list (deletedAt 0: not deleted).
Book(hash, title, author, deletedAt, status) ==
  [hash |-> hash, title |-> title, author |-> author, deletedAt |-> deletedAt,
   readingStatus |-> status]

dewStatusToReadingStatus(status) ==
  IF status = "" THEN ""
  ELSE IF status = "completed" THEN "finished"
  ELSE IF status = "reading" THEN "reading" ELSE "unread"

\* The find predicate of processRemoteDocument.
MatchesDeletedOnly(book, doc) ==
  /\ Normalize(book.title) = Normalize(doc.title)
  /\ Normalize(book.author) = Normalize(doc.author)
  /\ book.deletedAt # 0
Matches(book, doc) ==
  /\ Normalize(book.title) = Normalize(doc.title)
  /\ Normalize(book.author) = Normalize(doc.author)
  /\ book.deletedAt = 0

\* existingByMeta is defined.
existingByMeta(doc, currentLibrary) ==
  \E i \in 1..Len(currentLibrary) : Matches(currentLibrary[i], doc)

\* "finalLibrary[bookIdx] = importedBook" or "finalLibrary.push(importedBook)".
HashIndex(lib, hash) ==
  IF \E i \in 1..Len(lib) : lib[i].hash = hash
  THEN CHOOSE i \in 1..Len(lib) :
         lib[i].hash = hash /\ \A j \in 1..(i - 1) : lib[j].hash # hash
  ELSE 0

\* The book appService.importBook returns for the downloaded file: the
\* record the library holds for that file, no longer deleted, or a new
\* record of the document's title and author without a reading status.
importBook(doc, updatedLibrary) ==
  IF HashIndex(updatedLibrary, doc.id) # 0
  THEN [updatedLibrary[HashIndex(updatedLibrary, doc.id)] EXCEPT !.deletedAt = 0]
  ELSE Book(doc.id, doc.title, doc.author, 0, "")

\* "if (partialBook.readingStatus) importedBook.readingStatus = ...".
importedBook(doc, updatedLibrary) ==
  IF dewStatusToReadingStatus(doc.readingStatus) # ""
  THEN [importBook(doc, updatedLibrary) EXCEPT
          !.readingStatus = dewStatusToReadingStatus(doc.readingStatus)]
  ELSE importBook(doc, updatedLibrary)

PutBookOverFirst(lib, book) ==
  IF HashIndex(lib, book.hash) # 0
  THEN [lib EXCEPT ![HashIndex(lib, book.hash)] = book]
  ELSE IF lib = <<>> THEN <<book>> ELSE [lib EXCEPT ![1] = book]
PutBook(lib, book) ==
  IF HashIndex(lib, book.hash) # 0
  THEN [lib EXCEPT ![HashIndex(lib, book.hash)] = book]
  ELSE Append(lib, book)

\* The cursor write that ends a pull: { ...dewSync, lastLibrarySyncAt: now }.
advanceCursor(resolved, t) == [resolved EXCEPT !.lastLibrarySyncAt = t]

\* The locals of a library pass. imported is history: the documents every
\* pull so far has imported.
NoPass ==
  [kind |-> "none", dewSync |-> DEFAULT_DEW_SYNC_SETTINGS, since |-> 0,
   documents |-> <<>>, currentLibrary |-> <<>>, aliased |-> FALSE,
   books |-> <<>>, imported |-> {}, listedAt |-> 0]

readerVars ==
  <<dewSync, mounted, dewDocumentId, storeProgressVars, storeNotesVars,
    refVars, openVars, remoteDocSeen, notesPullVars, progressPushVars,
    notesPushVars, peer>>

\* --------------------------------------------------------- library pull
\* The documents of the batch from the first one processRemoteDocument
\* does not match in currentLibrary, and the log with the matches before it.
RECURSIVE SkipMatched(_, _, _)
SkipMatched(documents, currentLibrary, log) ==
  IF documents = <<>> THEN [documents |-> <<>>, log |-> log]
  ELSE IF existingByMeta(DewDocument(Head(documents)), currentLibrary)
  THEN SkipMatched(Tail(documents), currentLibrary,
                   Append(log, <<"match", Head(documents), "skip">>))
  ELSE [documents |-> documents, log |-> log]

\* The for loop of pullLibrary from the documents left in pass: up to the
\* next "await client.downloadFile(doc.id)", or through the cursor write
\* and the finally block when no document is left to download.
PullLoop(pass, log) ==
  LET r == SkipMatched(pass.documents, pass.currentLibrary, log) IN
  IF r.documents = <<>>
  THEN /\ settingsDewSync' = <<advanceCursor(pass.dewSync, now)>>
       /\ syncingRef' = FALSE
       /\ pcLibrary' = "idle"
       /\ libPass' = [NoPass EXCEPT !.imported = pass.imported]
       /\ libLog' = Append(r.log, <<"lastLibrarySyncAt", "", "write">>)
  ELSE /\ pcLibrary' = "download"
       /\ libPass' = [pass EXCEPT !.documents = r.documents]
       /\ libLog' = Append(r.log, <<"downloadFile", Head(r.documents), "call">>)
       /\ UNCHANGED <<settingsDewSync, syncingRef>>

\* pullLibrary up to "await client.listDocuments(since)".
pullLibrary ==
  /\ NoLoop
  /\ ~syncingRef
  /\ LibrarySyncOn(resolveDewSyncSettings(settingsDewSync, env))
  /\ syncingRef' = TRUE
  /\ pcLibrary' = "list"
  /\ libPass' = [NoPass EXCEPT
                   !.kind = "pull",
                   !.dewSync = resolveDewSyncSettings(settingsDewSync, env),
                   !.since = resolveDewSyncSettings(settingsDewSync, env).lastLibrarySyncAt,
                   !.imported = libPass.imported]
  /\ libLog' = <<<<"listDocuments", "", "call">>>>
  /\ UNCHANGED <<now, readerVars, settingsDewSync, env, library, remoteLibrary, escaped>>

\* pullLibrary after "await client.listDocuments(since)".  The pass keeps
\* the time of the answer in listedAt when keepBatch asks for the history.
LibraryListDoneAdvances(outcome, documents) ==
  /\ NoLoop
  /\ pcLibrary = "list"
  /\ outcome # "ok" => documents = <<>>
  /\ PullLoop([libPass EXCEPT !.documents = documents, !.currentLibrary = library,
                              !.aliased = TRUE,
                              !.listedAt = IF keepBatch THEN now ELSE 0],
              Append(libLog, <<"listDocuments", "", outcome>>))
  /\ UNCHANGED <<now, readerVars, env, library, remoteLibrary, escaped>>
LibraryListDone(outcome, documents) ==
  /\ NoLoop
  /\ pcLibrary = "list"
  /\ outcome # "ok" => documents = <<>>
  /\ IF outcome # "ok" \/ documents = <<>>
     THEN /\ syncingRef' = FALSE
          /\ pcLibrary' = "idle"
          /\ libPass' = [NoPass EXCEPT !.imported = libPass.imported]
          /\ libLog' = Append(libLog, <<"listDocuments", "", outcome>>)
          /\ UNCHANGED settingsDewSync
     ELSE PullLoop([libPass EXCEPT !.documents = documents,
                                   !.currentLibrary = library, !.aliased = TRUE,
                                   !.listedAt = IF keepBatch THEN now ELSE 0],
                   Append(libLog, <<"listDocuments", "", outcome>>))
  /\ UNCHANGED <<now, readerVars, env, library, remoteLibrary, escaped>>

\* processRemoteDocument after "await client.downloadFile(doc.id)"; size is
\* blob.size of the file delivered.
DownloadDoneNoGuard(outcome, size) ==
  /\ NoLoop
  /\ pcLibrary = "download"
  /\ IF outcome # "ok"
     THEN PullLoop([libPass EXCEPT !.documents = Tail(libPass.documents)],
                   Append(libLog, <<"downloadFile", Head(libPass.documents), outcome>>))
     ELSE /\ pcLibrary' = "import"
          /\ libLog' = libLog \o <<<<"downloadFile", Head(libPass.documents), size>>,
                                   <<"importBook", Head(libPass.documents), "call">>>>
          /\ UNCHANGED <<settingsDewSync, syncingRef, libPass>>
  /\ UNCHANGED <<now, readerVars, env, library, remoteLibrary, escaped>>
DownloadDone(outcome, size) ==
  /\ NoLoop
  /\ pcLibrary = "download"
  /\ IF outcome # "ok"
     THEN PullLoop([libPass EXCEPT !.documents = Tail(libPass.documents)],
                   Append(libLog, <<"downloadFile", Head(libPass.documents), outcome>>))
     ELSE IF size = "0"
     THEN PullLoop([libPass EXCEPT !.documents = Tail(libPass.documents)],
                   Append(libLog, <<"downloadFile", Head(libPass.documents), size>>))
     ELSE /\ pcLibrary' = "import"
          /\ libLog' = libLog \o <<<<"downloadFile", Head(libPass.documents), size>>,
                                   <<"importBook", Head(libPass.documents), "call">>>>
          /\ UNCHANGED <<settingsDewSync, syncingRef, libPass>>
  /\ UNCHANGED <<now, readerVars, env, library, remoteLibrary, escaped>>

\* The write of the imported book made onto the library the pass listed.
ImportDoneOnCached(result) ==
  /\ NoLoop
  /\ pcLibrary = "import"
  /\ IF result = "book"
     THEN /\ library' = PutBook(libPass.currentLibrary,
                               importedBook(DewDocument(Head(libPass.documents)), library))
          /\ pcLibrary' = "save"
          /\ libPass' = [libPass EXCEPT
                           !.currentLibrary =
                             IF libPass.aliased THEN library' ELSE libPass.currentLibrary,
                           !.aliased = FALSE,
                           !.imported = libPass.imported \cup {Head(libPass.documents)}]
          /\ libLog' = libLog \o <<<<"importBook", Head(libPass.documents), result>>,
                                   <<"saveLibraryBooks", Head(libPass.documents), "call">>>>
          /\ UNCHANGED <<settingsDewSync, syncingRef>>
     ELSE /\ PullLoop([libPass EXCEPT !.documents = Tail(libPass.documents)],
                      Append(libLog, <<"importBook", Head(libPass.documents), result>>))
          /\ UNCHANGED library
  /\ UNCHANGED <<now, readerVars, env, remoteLibrary, escaped>>
\* processRemoteDocument after "await appService.importBook(file,
\* updatedLibrary)": result is "book", "null" or "throws". The book goes
\* into the array the store holds; currentLibrary is that same array until
\* setLibrary([...finalLibrary]) gives the store a copy.
ImportDone(result) ==
  /\ NoLoop
  /\ pcLibrary = "import"
  /\ IF result = "book"
     THEN /\ library' = PutBook(library,
                               importedBook(DewDocument(Head(libPass.documents)), library))
          /\ pcLibrary' = "save"
          /\ libPass' = [libPass EXCEPT
                           !.currentLibrary =
                             IF libPass.aliased THEN library' ELSE libPass.currentLibrary,
                           !.aliased = FALSE,
                           !.imported = libPass.imported \cup {Head(libPass.documents)}]
          /\ libLog' = libLog \o <<<<"importBook", Head(libPass.documents), result>>,
                                   <<"saveLibraryBooks", Head(libPass.documents), "call">>>>
          /\ UNCHANGED <<settingsDewSync, syncingRef>>
     ELSE /\ PullLoop([libPass EXCEPT !.documents = Tail(libPass.documents)],
                      Append(libLog, <<"importBook", Head(libPass.documents), result>>))
          /\ UNCHANGED library
  /\ UNCHANGED <<now, readerVars, env, remoteLibrary, escaped>>

\* processRemoteDocument after "await appService.saveLibraryBooks(...)".
SaveDone(result) ==
  /\ NoLoop
  /\ pcLibrary = "save"
  /\ PullLoop([libPass EXCEPT !.documents = Tail(libPass.documents)],
              Append(libLog, <<"saveLibraryBooks", Head(libPass.documents), result>>))
  /\ UNCHANGED <<now, readerVars, env, library, remoteLibrary, escaped>>

\* --------------------------------------------------------- library push
\* The books of currentLibrary from the first one that is not deleted.
RECURSIVE SkipDeleted(_)
SkipDeleted(books) ==
  IF books = <<>> THEN <<>>
  ELSE IF Head(books).deletedAt # 0 THEN SkipDeleted(Tail(books))
  ELSE books

\* The for loop of pushLibrary from the books left: up to the next
\* "await client.searchDocument(book.title)", or through the finally block.
PushLoop(books, log) ==
  IF SkipDeleted(books) = <<>>
  THEN /\ syncingRef' = FALSE
       /\ pcLibrary' = "idle"
       /\ libPass' = [NoPass EXCEPT !.imported = libPass.imported]
       /\ libLog' = log
  ELSE /\ pcLibrary' = "search"
       /\ libPass' = [libPass EXCEPT !.kind = "push", !.books = SkipDeleted(books)]
       /\ libLog' = Append(log, <<"searchDocument", Head(SkipDeleted(books)).title, "call">>)
       /\ UNCHANGED syncingRef

\* pushLibrary from "syncingRef.current = true" up to the first await, over
\* the library the store holds.
PushStart(lib) ==
  IF SkipDeleted(lib) = <<>>
  THEN /\ libLog' = <<>>
       /\ UNCHANGED <<syncingRef, pcLibrary, libPass>>
  ELSE /\ syncingRef' = TRUE
       /\ pcLibrary' = "search"
       /\ libPass' = [NoPass EXCEPT
                        !.kind = "push",
                        !.dewSync = resolveDewSyncSettings(settingsDewSync, env),
                        !.currentLibrary = lib,
                        !.aliased = TRUE,
                        !.books = SkipDeleted(lib),
                        !.imported = libPass.imported]
       /\ libLog' = <<<<"searchDocument", Head(SkipDeleted(lib)).title, "call">>>>

\* pushLibrary without its test of syncingRef.current.
pushLibraryUnguarded ==
  /\ NoLoop
  /\ library # <<>>
  /\ LibrarySyncOn(resolveDewSyncSettings(settingsDewSync, env))
  /\ PushStart(library)
  /\ UNCHANGED <<now, readerVars, settingsDewSync, env, library, remoteLibrary, escaped>>
\* pushLibrary, called by the effect on library.length when the library
\* holds a book, up to the first await.
pushLibrary ==
  /\ NoLoop
  /\ ~syncingRef
  /\ library # <<>>
  /\ LibrarySyncOn(resolveDewSyncSettings(settingsDewSync, env))
  /\ PushStart(library)
  /\ UNCHANGED <<now, readerVars, settingsDewSync, env, library, remoteLibrary, escaped>>

\* Another actor (the user importing a file) puts a book into the library
\* store as a new array; library.length changes and the effect calls
\* pushLibrary(), which returns at once while syncingRef.current is set.
LibraryAdd(book) ==
  /\ NoLoop
  /\ HashIndex(library, book.hash) = 0
  /\ library' = Append(library, book)
  /\ IF ~syncingRef /\ LibrarySyncOn(resolveDewSyncSettings(settingsDewSync, env))
     THEN PushStart(library')
     ELSE /\ libPass' = [libPass EXCEPT !.aliased = FALSE]
          /\ UNCHANGED <<syncingRef, pcLibrary, libLog>>
  /\ UNCHANGED <<now, readerVars, settingsDewSync, env, remoteLibrary, escaped>>

\* Another actor (the reader) gives a book of the library store a reading
\* status, as a new array; library.length stays and no effect runs.
LibraryUpdate(hash, status) ==
  /\ NoLoop
  /\ HashIndex(library, hash) # 0
  /\ library[HashIndex(library, hash)].readingStatus # status
  /\ library' = [library EXCEPT ![HashIndex(library, hash)].readingStatus = status]
  /\ libPass' = [libPass EXCEPT !.aliased = FALSE]
  /\ UNCHANGED <<now, readerVars, settingsDewSync, env, syncingRef, pcLibrary,
                 remoteLibrary, libLog, escaped>>

\* pushLibrary after "await client.searchDocument(book.title)"; found is
\* searchResult.data?.id being there.
LibrarySearchDone(outcome, found) ==
  /\ NoLoop
  /\ pcLibrary = "search"
  /\ outcome # "ok" => ~found
  /\ IF outcome = "ok" /\ found
     THEN PushLoop(Tail(libPass.books),
                   Append(libLog, <<"searchDocument", Head(libPass.books).title, "found">>))
     ELSE /\ pcLibrary' = "load"
          /\ libLog' = Append(libLog, <<"searchDocument", Head(libPass.books).title, outcome>>)
          /\ UNCHANGED <<syncingRef, libPass>>
  /\ UNCHANGED <<now, readerVars, settingsDewSync, env, library, remoteLibrary, escaped>>

\* pushLibrary after "await appService.loadBookContent(book)" and
\* "await file.arrayBuffer()"; load is the blob's size, or "throws".
LibraryLoadDone(load) ==
  /\ NoLoop
  /\ pcLibrary = "load"
  /\ IF load = "throws" \/ load = "0"
     THEN PushLoop(Tail(libPass.books),
                   Append(libLog, <<"loadBookContent", Head(libPass.books).title, load>>))
     ELSE /\ pcLibrary' = "upload"
          /\ libLog' = libLog \o <<<<"loadBookContent", Head(libPass.books).title, load>>,
                                   <<"uploadDocument", Head(libPass.books).title, "call">>>>
          /\ UNCHANGED <<syncingRef, libPass>>
  /\ UNCHANGED <<now, readerVars, settingsDewSync, env, library, remoteLibrary, escaped>>

\* pushLibrary after "await client.uploadDocument(blob, uploadOpts)".
LibraryUploadDone(outcome) ==
  /\ NoLoop
  /\ pcLibrary = "upload"
  /\ remoteLibrary' = IF outcome = "ok"
                      THEN remoteLibrary \cup {Head(libPass.books).title}
                      ELSE remoteLibrary
  /\ PushLoop(Tail(libPass.books),
              Append(libLog, <<"uploadDocument", Head(libPass.books).title, outcome>>))
  /\ UNCHANGED <<now, readerVars, settingsDewSync, env, library, escaped>>

\* ------------------------------------------------------- initial states
NoUpdate ==
  [kind |-> "none", trigger |-> "", local |-> 0,
   update |-> [documentId |-> "", currentPage |-> 0, status |-> ""]]

NoDoc == [updatedAt |-> 0, currentPage |-> NullPage, totalPages |-> NullPage,
          readingStatus |-> ""]

NoSynced == [id \in LocalNoteIds |-> ""]

\* The book as the store holds it before the reader opens it: no hook
\* instance, nothing pending, nothing in flight.
ReaderInitWith(t, settings, docId, prog, cursor, notes, synced, keep) ==
  /\ now = t
  /\ dewSync = settings
  /\ mounted = FALSE
  /\ dewDocumentId = docId
  /\ progress = prog
  /\ readingStatus = "reading"
  /\ dewLastProgressSyncAt = cursor
  /\ booknotes = notes
  /\ dewSyncedNoteIds = synced
  /\ dewLastNotesSyncAt = 0
  /\ hasUploadedRef = FALSE
  /\ uploadingRef = FALSE
  /\ hasPulledProgressRef = FALSE
  /\ hasPulledNotesRef = FALSE
  /\ pcOpen = "idle"
  /\ openDocId = ""
  /\ openLog = <<>>
  /\ remoteDocSeen = NoDoc
  /\ pcNotesPull = "idle"
  /\ pullCfg = NoCfg
  /\ work = NoWork
  /\ remaining = 0
  /\ seenRemoteIds = {}
  /\ lastRemote = NoRemote
  /\ mergedBatch = <<>>
  /\ keepBatch = keep
  /\ progressTimer = FALSE
  /\ progressInFlight = 0
  /\ lastUpdate = NoUpdate
  /\ notesTimer = FALSE
  /\ notesCalls = 0
  /\ notesPasses = <<>>
  /\ peer = NoPeer

\* The library hook at rest over the given settings store, environment
\* and library.
LibraryInitWith(stored, e, lib) ==
  /\ settingsDewSync = stored
  /\ env = e
  /\ library = lib
  /\ syncingRef = FALSE
  /\ pcLibrary = "idle"
  /\ libPass = NoPass
  /\ remoteLibrary = {}
  /\ libLog = <<>>
  /\ escaped = {}

\* The reader's worlds: library sync is not configured.
InitWith(t, settings, docId, prog, cursor, notes, synced, keep) ==
  /\ ReaderInitWith(t, settings, docId, prog, cursor, notes, synced, keep)
  /\ LibraryInitWith(<<>>, Env("", ""), <<>>)

\* ------------------------------------------------------ progress pull
\* Progress sync alone (syncNotes off) on a linked book whose existence
\* check succeeds: every open pulls the remote snapshot.
InitProgressPull ==
  \E prog \in ProgressValues, cursor \in 0..1 :
    InitWith(1, Settings(TRUE, TRUE, FALSE), "d1", prog, cursor, <<>>, NoSynced, FALSE)

NextProgressPull ==
  \/ Mount
  \/ \E remoteDoc \in RemoteDocs : CheckDone("ok", remoteDoc)
  \/ NotesTimerFire
  \/ Unmount
  \/ Tick

SpecProgressPull == InitProgressPull /\ [][NextProgressPull]_vars

\* ------------------------------------------------------ progress push
\* The reader turns pages; the remote snapshots are recent ones without a
\* reading status.
RecentDocs == {d \in RemoteDocs : d.updatedAt = MaxTime /\ d.readingStatus = ""}

InitProgressPush ==
  \E prog \in ProgressValues :
    InitWith(1, Settings(TRUE, TRUE, FALSE), "d1", prog, 0, <<>>, NoSynced, FALSE)

NextProgressPush ==
  \/ Mount
  \/ \E remoteDoc \in RecentDocs : CheckDone("ok", remoteDoc)
  \/ \E p \in 1..MaxPage : PageTurn(p)
  \/ ProgressTimerFire
  \/ \E outcome \in Outcomes : ProgressPushDone(outcome)
  \/ NotesTimerFire
  \/ Unmount
  \/ Tick

SpecProgressPush == InitProgressPush /\ [][NextProgressPush]_vars

\* C1: every update handed to updateProgress carries a remote page that the
\* pull's conversion (remote + 1) turns back into exactly the local page
\* (>= 1) it was made from.
C1_ProgressRoundTrip ==
  lastUpdate.kind = "update" =>
    /\ lastUpdate.local >= 1
    /\ lastUpdate.update.currentPage + 1 = lastUpdate.local
    /\ ToLocalPage(lastUpdate.update.currentPage) = lastUpdate.local

\* An update made from the last page is awaiting the transport.
C1_Witness ==
  /\ progressInFlight > 0
  /\ lastUpdate.kind = "update"
  /\ lastUpdate.local = MaxPage
  /\ lastUpdate.update.currentPage = MaxPage - 1

\* The step of doUpload that runs pullProgressOnOpen on the fetched snapshot.
ProgressPullStep ==
  /\ pcOpen = "check"
  /\ pcOpen' = "done"
  /\ dewSync.syncProgress
  /\ ~hasPulledProgressRef

\* The snapshot has both pages, is strictly newer than the progress cursor
\* and strictly ahead of the local current page.
NewerAndAhead(d, cursor, prog) ==
  /\ d.currentPage # NullPage
  /\ d.totalPages # NullPage
  /\ d.updatedAt > cursor
  /\ d.currentPage + 1 > (IF prog = NoProgress THEN 0 ELSE prog[1])

PulledNotes(remoteIds, leafIds) ==
  {DewNote(r, u, [leafNoteId |-> l, updatedAt |-> u, deletedAt |-> d]) :
     r \in remoteIds, l \in leafIds, u \in Times, d \in 0..MaxTime}
  \cup {DewNote(r, u, [leafNoteId |-> l, updatedAt |-> 0, deletedAt |-> 0]) :
          r \in remoteIds, l \in leafIds, u \in Times}
  \cup {DewNote(r, u, NoMetadata) : r \in remoteIds, u \in Times}

\* A note made in the reader at time u and pushed as remote note "r1".
LocalNote(u) == BookNote("n1", "annotation", "cfi", "mine", u, 0)
SyncedAs(remoteId) == [NoSynced EXCEPT !["n1"] = remoteId]

\* Notes sync alone (syncProgress off) on a linked book: every open pulls a
\* batch of at most one remote note and merges it; the user deletes the
\* note.
InitNotesPull ==
  \/ \E t \in Times :
       InitWith(t, Settings(TRUE, FALSE, TRUE), "d1", NoProgress, 0, <<>>, NoSynced, FALSE)
  \/ \E t \in Times, u \in Times :
       /\ u <= t
       /\ InitWith(t, Settings(TRUE, FALSE, TRUE), "d1", NoProgress, 0,
                   <<LocalNote(u)>>, SyncedAs("r1"), FALSE)

NextNotesPull ==
  \/ Mount
  \/ CheckDone("ok", NoDoc)
  \/ \E outcome \in Outcomes, size \in 0..1 : NotesFetchDone(outcome, size)
  \/ \E remoteNote \in PulledNotes({"r1"}, {"n1"}) : MergeStep(remoteNote)
  \/ MergeEnd
  \/ NoteDelete("n1")
  \/ NotesTimerFire
  \/ Unmount
  \/ Tick

SpecNotesPull == InitNotesPull /\ [][NextNotesPull]_vars

\* One turn of the merge loop has been taken.
MergeStepTaken == pcNotesPull = "merge" /\ remaining' = remaining - 1

\* The turn merges a remote note that originated in Leaf against the local
\* note of that id, which exists.
MergesAgainstLocal ==
  /\ MergeStepTaken
  /\ lastRemote'.metadata.leafNoteId # ""
  /\ \E i \in 1..Len(work.booknotes) :
       work.booknotes[i].id = lastRemote'.metadata.leafNoteId

\* The place of that local note.
LocalPlace ==
  CHOOSE i \in 1..Len(work.booknotes) :
    work.booknotes[i].id = lastRemote'.metadata.leafNoteId

\* The logical update time of the remote note merged in the turn.
LogicalUpdatedAt ==
  IF lastRemote'.metadata.updatedAt # 0 THEN lastRemote'.metadata.updatedAt
  ELSE lastRemote'.updatedAt

\* C3: when a local note is marked deleted at time d, merging a remote note
\* whose logical times (updatedAt, and deletion time if any) are all older
\* than d leaves the local note marked deleted.
C3_DeletionNeverClearedByOlder ==
  [][(/\ MergesAgainstLocal
      /\ work.booknotes[LocalPlace].deletedAt # 0
      /\ LogicalUpdatedAt < work.booknotes[LocalPlace].deletedAt
      /\ lastRemote'.metadata.deletedAt < work.booknotes[LocalPlace].deletedAt)
     => work'.booknotes[LocalPlace].deletedAt # 0]_vars

\* C4: a remote note with an origin id and a deletion marker, merged against
\* the existing local note, leaves the notes unchanged when the local
\* updatedAt is strictly greater than the remote deletion time, and
\* otherwise sets the local deletedAt to the remote deletion time (and
\* nothing else).
C4_SoftDeletePrecedence ==
  [][(MergesAgainstLocal /\ lastRemote'.metadata.deletedAt # 0)
     => IF work.booknotes[LocalPlace].updatedAt > lastRemote'.metadata.deletedAt
        THEN work'.booknotes = work.booknotes
        ELSE work'.booknotes =
               [work.booknotes EXCEPT ![LocalPlace].deletedAt =
                                        lastRemote'.metadata.deletedAt]]_vars

\* A pulled deletion marker, not older than the local note, has just marked
\* the un-deleted local note deleted.
C4_Witness ==
  /\ pcNotesPull = "merge"
  /\ remaining = 0
  /\ lastRemote.metadata.leafNoteId = "n1"
  /\ lastRemote.metadata.deletedAt # 0
  /\ Len(pullCfg.booknotes) = 1
  /\ pullCfg.booknotes[1].id = "n1"
  /\ pullCfg.booknotes[1].deletedAt = 0
  /\ pullCfg.booknotes[1].updatedAt <= lastRemote.metadata.deletedAt
  /\ work.booknotes[1].deletedAt = lastRemote.metadata.deletedAt
  /\ work.booknotes[1].text = "mine"

\* C5: a remote note with an origin id and no deletion marker, merged
\* against the existing local note, overwrites it with the remote version
\* when the remote logical updatedAt is strictly greater than the local
\* updatedAt, and otherwise (equal timestamps included) leaves the notes
\* unchanged.
C5_LastWriterWins ==
  [][(MergesAgainstLocal /\ lastRemote'.metadata.deletedAt = 0)
     => IF LogicalUpdatedAt > work.booknotes[LocalPlace].updatedAt
        THEN work'.booknotes =
               [work.booknotes EXCEPT ![LocalPlace] =
                  BookNote(lastRemote'.metadata.leafNoteId, "annotation", "cfi",
                           "text", LogicalUpdatedAt, 0)]
        ELSE work'.booknotes = work.booknotes]_vars

\* A pulled note with the local note's own timestamp has just been merged:
\* the local note, with its own text, is kept.
C5_Witness ==
  /\ pcNotesPull = "merge"
  /\ remaining = 0
  /\ lastRemote.metadata.leafNoteId = "n1"
  /\ lastRemote.metadata.deletedAt = 0
  /\ lastRemote.metadata.updatedAt # 0
  /\ Len(pullCfg.booknotes) = 1
  /\ pullCfg.booknotes[1].text = "mine"
  /\ pullCfg.booknotes[1].updatedAt = lastRemote.metadata.updatedAt
  /\ work.booknotes = pullCfg.booknotes
  /\ ~work.changed

\* ------------------------------------------------- notes pull, one batch
\* One open of a linked book: a batch of up to two remote notes is merged,
\* and the batch is kept to merge it again.

InitReMerge ==
  \/ InitWith(1, Settings(TRUE, FALSE, TRUE), "d1", NoProgress, 0, <<>>, NoSynced, TRUE)
  \/ \E u \in Times :
       InitWith(MaxTime, Settings(TRUE, FALSE, TRUE), "d1", NoProgress, 0,
                <<LocalNote(u)>>, SyncedAs("r1"), TRUE)

NextReMerge ==
  \/ Mount
  \/ CheckDone("ok", NoDoc)
  \/ \E outcome \in Outcomes, size \in 0..Cardinality(RemoteNoteIds) : NotesFetchDone(outcome, size)
  \/ \E remoteNote \in PulledNotes(RemoteNoteIds, {"n1"}) : MergeStep(remoteNote)
  \/ MergeEnd
  \/ NotesTimerFire

SpecReMerge == InitReMerge /\ [][NextReMerge]_vars

\* C6: when the merge loop has gone through a batch, going through the same
\* batch again from its result changes neither the notes nor the
\* synced-identifier map.
C6_IdempotentReMerge ==
  (pcNotesPull = "merge" /\ remaining = 0) =>
    LET again == MergeAll(Work(work.booknotes, work.syncedIds, FALSE), mergedBatch)
    IN /\ again.booknotes = work.booknotes
       /\ again.syncedIds = work.syncedIds

\* ----------------------------------------------------------- the reader
\* A linked book in the reader, progress and notes sync on: the user turns
\* pages and makes a note, the timers elapse, the transport answers, the
\* reader is closed and opened again.  The remote holds nothing to pull.
InitReader ==
  InitWith(1, Settings(TRUE, TRUE, TRUE), "d1", NoProgress, 0, <<>>, NoSynced, FALSE)

NextReader ==
  \/ Mount
  \/ CheckDone("ok", NoDoc)
  \/ \E outcome \in Outcomes : NotesFetchDone(outcome, 0)
  \/ \E p \in 1..MaxPage : PageTurn(p)
  \/ NoteAdd("n1", "mine")
  \/ ProgressTimerFire
  \/ \E outcome \in Outcomes : ProgressPushDone(outcome)
  \/ NotesTimerFire
  \/ \E k \in 1..MaxInFlight, outcome \in Outcomes, remoteId \in {"", "r1"} :
       AddNoteDone(k, outcome, remoteId)
  \/ \E k \in 1..MaxInFlight, outcome \in Outcomes : UpdateNoteDone(k, outcome)
  \/ Unmount

SpecReader == InitReader /\ [][NextReader]_vars

\* C7: at most one push is in flight for the book's progress and at most
\* one for the book's notes.
C7_SingleFlight == progressInFlight <= 1 /\ Len(notesPasses) <= 1

\* The ids of the notes of the store a notes push selects: annotations and
\* excerpts with a text, not deleted, without an entry in dewSyncedNoteIds.
PendingNoteIds ==
  {booknotes[i].id : i \in {j \in 1..Len(booknotes) :
     /\ booknotes[j].type \in {"annotation", "excerpt"}
     /\ booknotes[j].deletedAt = 0
     /\ booknotes[j].text # ""
     /\ dewSyncedNoteIds[booknotes[j].id] = ""}}

\* The ids of the notes the newest pass in flight has selected.
NewestPassIds(passes) ==
  {passes[Len(passes)].newNotes[i].id : i \in 1..Len(passes[Len(passes)].newNotes)}

\* The cleanup of the hook instance runs.
TeardownStep == mounted /\ ~mounted'

\* C9: the teardown runs every pending debounced push at once.  A pending
\* progress call hands the current page to updateProgress; a pending notes
\* call starts a pass for every note of the store that awaits its push;
\* no call stays pending.
C9_TeardownFlushes ==
  [][TeardownStep =>
       /\ (progressTimer /\ dewSync.syncProgress /\ dewDocumentId # ""
             /\ progress # NoProgress)
          => /\ progressInFlight' = progressInFlight + 1
             /\ lastUpdate'.kind = "update"
             /\ lastUpdate'.local = progress[1]
       /\ (notesTimer /\ dewSync.syncNotes /\ dewDocumentId # ""
             /\ PendingNoteIds # {})
          => /\ Len(notesPasses') = Len(notesPasses) + 1
             /\ NewestPassIds(notesPasses') = PendingNoteIds
       /\ ~progressTimer'
       /\ ~notesTimer']_vars

\* The reader was closed with a page turn and a note still pending: both
\* pushes were started by flush() and await the transport.
C9_Witness ==
  /\ ~mounted
  /\ progressInFlight = 1
  /\ lastUpdate.trigger = "flush"
  /\ lastUpdate.local = progress[1]
  /\ Len(notesPasses) = 1
  /\ notesPasses[1].trigger = "flush"
  /\ notesPasses[1].newNotes[1].id = "n1"

\* ------------------------------------------------------------ notes push
\* Notes sync alone on a linked book: the user makes notes, the timer
\* elapses, the transport answers; a created note comes back with its id.
InitNotesPush ==
  InitWith(1, Settings(TRUE, FALSE, TRUE), "d1", NoProgress, 0, <<>>, NoSynced, FALSE)

NextNotesPush ==
  \/ Mount
  \/ CheckDone("ok", NoDoc)
  \/ \E outcome \in Outcomes : NotesFetchDone(outcome, 0)
  \/ \E id \in LeafNoteIds : NoteAdd(id, "mine")
  \/ NotesTimerFire
  \/ \E k \in 1..MaxInFlight, outcome \in Outcomes :
       AddNoteDone(k, outcome, IF outcome = "ok" THEN "r1" ELSE "")
  \/ \E k \in 1..MaxInFlight, outcome \in Outcomes : UpdateNoteDone(k, outcome)
  \/ Unmount

SpecNotesPush == InitNotesPush /\ [][NextNotesPush]_vars

\* C8: when the pending notes call that stands for two or more calls of one
\* debounce window is run, at most one pass is started, and it selects
\* every note of the store that awaits its push at that moment (the notes
\* of all the mutations of the window), and no call stays pending.
C8_OnePassWithUnion ==
  [][(notesTimer /\ ~notesTimer' /\ notesCalls >= 2) =>
       /\ Len(notesPasses') <= Len(notesPasses) + 1
       /\ (dewDocumentId # "" /\ PendingNoteIds # {})
          => /\ Len(notesPasses') = Len(notesPasses) + 1
             /\ NewestPassIds(notesPasses') = PendingNoteIds
       /\ notesCalls' = 0]_vars

\* Two notes made in one window: the one pass the timer started holds both.
C8_Witness ==
  /\ ~notesTimer
  /\ Len(notesPasses) = 1
  /\ notesPasses[1].trigger = "timer"
  /\ notesPasses[1].calls >= 2
  /\ Len(notesPasses[1].newNotes) = 2
  /\ notesPasses[1].newNotes[1].id # notesPasses[1].newNotes[2].id
  /\ notesPasses[1].syncedIds = NoSynced

\* ------------------------------------------------------------- open flow
\* Opening a book, linked or not, against a transport that may fail in
\* either way at each call.
InitOpen ==
  \E docId \in {"", "d1"}, prog \in ProgressValues :
    InitWith(1, Settings(TRUE, TRUE, FALSE), docId, prog, 0, <<>>, NoSynced, FALSE)

NextOpen ==
  \/ Mount
  \/ \E outcome \in Outcomes, remoteDoc \in RecentDocs : CheckDone(outcome, remoteDoc)
  \/ \E outcome \in Outcomes, foundId \in {""} \cup DocIds : SearchDone(outcome, foundId)
  \/ \E load \in {"throws", "0", "1"} : LoadDone(load)
  \/ \E outcome \in Outcomes, id \in DocIds : UploadDone(outcome, id)
  \/ NotesTimerFire
  \/ Unmount

SpecOpen == InitOpen /\ [][NextOpen]_vars

\* The transport calls and answers of the open flow so far.
OpenEvents == {openLog[i] : i \in 1..Len(openLog)}

\* C10: after a network-class failure of the existence check the stored
\* link is the one the open flow found, and no search and no upload has
\* been started.
C10_NetworkFailureKeepsLink ==
  <<"getDocument", "net">> \in OpenEvents =>
    /\ dewDocumentId = openDocId
    /\ <<"searchDocument", "call">> \notin OpenEvents
    /\ <<"uploadDocument", "call">> \notin OpenEvents

\* C11: an upload is started in the open flow only after the title search
\* of the same pass has answered, and never after a search that ended in a
\* network-class failure.
C11_UploadOnlyAfterSearchFoundNothing ==
  <<"uploadDocument", "call">> \in OpenEvents =>
    /\ <<"searchDocument", "call">> \in OpenEvents
    /\ <<"searchDocument", "net">> \notin OpenEvents

\* ---------------------------------------------------------- library sync
\* The batches listDocuments delivers: runs of the server's documents.
Batches ==
  {<<>>} \cup {SubSeq(LibraryDocIds, i, j) : i, j \in 1..Len(LibraryDocIds)}

\* Library sync switched on in the stored settings, no cursor yet.
StoredOn == DewSyncSettings("true", "sk", "https://dew", "true", "true", "true", 0)

\* Libraries before the first pass: empty, a book of the title and author
\* of a remote document, and that book deleted.
Libraries ==
  {<<>>, <<Book("h0", "emma", "", 0, "")>>, <<Book("x2", "Emma", "", 1, "")>>}

InitLibrary ==
  \E lib \in Libraries :
    /\ ReaderInitWith(1, Settings(FALSE, FALSE, FALSE), "", NoProgress, 0, <<>>,
                      NoSynced, FALSE)
    /\ LibraryInitWith(<<StoredOn>>, Env("", ""), lib)

NextLibrary ==
  \/ pullLibrary
  \/ \E outcome \in Outcomes, documents \in Batches : LibraryListDone(outcome, documents)
  \/ \E outcome \in Outcomes, size \in {"0", "1"} : DownloadDone(outcome, size)
  \/ \E result \in {"book", "null", "throws"} : ImportDone(result)
  \/ \E result \in {"ok", "throws"} : SaveDone(result)
  \/ pushLibrary
  \/ \E outcome \in Outcomes, found \in BOOLEAN : LibrarySearchDone(outcome, found)
  \/ \E load \in {"throws", "0", "1"} : LibraryLoadDone(load)
  \/ \E outcome \in Outcomes : LibraryUploadDone(outcome)
  \/ Tick

SpecLibrary == InitLibrary /\ [][NextLibrary]_vars

\* ------------------------------------------------- reader and library
\* Both hooks against every outcome of the transport, the file loader and
\* the importer: a book opened in the reader, or the library hook running
\* its passes.
InitBoundary == InitOpen \/ InitLibrary

NextBoundary ==
  \/ NextOpen
  \/ pullLibrary
  \/ \E outcome \in Outcomes, documents \in Batches : LibraryListDone(outcome, documents)
  \/ \E outcome \in Outcomes, size \in {"0", "1"} : DownloadDone(outcome, size)
  \/ \E result \in {"book", "null", "throws"} : ImportDone(result)
  \/ \E result \in {"ok", "throws"} : SaveDone(result)
  \/ pushLibrary
  \/ \E outcome \in Outcomes, found \in BOOLEAN : LibrarySearchDone(outcome, found)
  \/ \E load \in {"throws", "0", "1"} : LibraryLoadDone(load)
  \/ \E outcome \in Outcomes : LibraryUploadDone(outcome)

SpecBoundary == InitBoundary /\ [][NextBoundary]_vars

\* The entry of the library log that precedes entry i.
LibLogBefore(i) == IF i > 1 THEN libLog[i - 1] ELSE <<"", "", "">>

\* C12: no empty payload crosses the boundary. In the open flow and in
\* the library push the file handed to uploadDocument is never the
\* zero-byte one, and in the library pull a zero-byte download is never
\* handed to importBook.
C12_NoEmptyPayload ==
  /\ <<"uploadDocument", "call">> \in OpenEvents =>
        <<"loadBookContent", "0">> \notin OpenEvents
  /\ \A i \in 1..Len(libLog) :
        /\ (libLog[i][1] = "uploadDocument" /\ libLog[i][3] = "call") =>
             LibLogBefore(i) = <<"loadBookContent", libLog[i][2], "1">>
        /\ (libLog[i][1] = "importBook" /\ libLog[i][3] = "call") =>
             LibLogBefore(i) = <<"downloadFile", libLog[i][2], "1">>

\* A pull in which one download was empty and a later one was imported.
C12_Witness ==
  \E i, j \in 1..Len(libLog) :
    /\ i < j
    /\ libLog[i][1] = "downloadFile" /\ libLog[i][3] = "0"
    /\ libLog[j] = <<"importBook", libLog[j][2], "book">>
    /\ libLog[j][2] # libLog[i][2]

C14_MatchedDocumentUntouched ==
  pcLibrary \in {"download", "import"} =>
    ~existingByMeta(DewDocument(Head(libPass.documents)), library)

\* C15: no step of a library pass removes a book from the local library,
\* marks a book that was not deleted as deleted, or removes a document
\* from the remote side: both sets only grow.
C15_NoDeletionPropagated ==
  [][/\ \A i \in 1..Len(library) : \E j \in 1..Len(library') :
          /\ library'[j].hash = library[i].hash
          /\ library[i].deletedAt = 0 => library'[j].deletedAt = 0
     /\ Len(library') >= Len(library)
     /\ remoteLibrary \subseteq remoteLibrary']_vars

\* Passes in both directions have acted: a pull imported, the library
\* holds two books, and a push uploaded.
C15_Witness ==
  /\ libPass.imported # {}
  /\ Len(library) >= 2
  /\ remoteLibrary # {}

\* The entries of the library log of the pass.
LibEvents == {libLog[i] : i \in 1..Len(libLog)}

\* A document of the pull failed: its download, or its import.
PullItemFailed ==
  \E e \in LibEvents :
    \/ e[1] = "downloadFile" /\ e[3] \in {"fail", "net"}
    \/ e[1] = "importBook" /\ e[3] = "throws"

\* C16: a pull in which the download or the import of a document failed
\* does not write the library cursor.
C16_FailedPullKeepsCursor ==
  PullItemFailed => <<"lastLibrarySyncAt", "", "write">> \notin LibEvents

\* ---------------------------------------------------------------- cursors
\* The three scopes that keep a cursor, each in a world of its own: a book
\* with progress sync, a book with notes sync, and the library hook with
\* no book open.
InitCursors == InitProgressPush \/ InitNotesPull \/ InitLibrary

NextCursors ==
  \/ dewSync.enabled /\ Mount
  \/ dewSync.syncProgress /\ \E remoteDoc \in RecentDocs : CheckDone("ok", remoteDoc)
  \/ dewSync.syncProgress /\ \E p \in 1..MaxPage : PageTurn(p)
  \/ dewSync.syncProgress /\ ProgressTimerFire
  \/ dewSync.syncProgress /\ \E outcome \in Outcomes : ProgressPushDone(outcome)
  \/ dewSync.syncNotes /\ CheckDone("ok", NoDoc)
  \/ dewSync.syncNotes /\ \E outcome \in Outcomes, size \in 0..1 : NotesFetchDone(outcome, size)
  \/ dewSync.syncNotes /\ \E remoteNote \in PulledNotes({"r1"}, {"n1"}) : MergeStep(remoteNote)
  \/ dewSync.syncNotes /\ MergeEnd
  \/ dewSync.syncNotes /\ NoteDelete("n1")
  \/ dewSync.enabled /\ NotesTimerFire
  \/ dewSync.enabled /\ Unmount
  \/ ~dewSync.enabled /\ pullLibrary
  \/ \E outcome \in Outcomes, documents \in Batches : LibraryListDone(outcome, documents)
  \/ \E outcome \in Outcomes, size \in {"0", "1"} : DownloadDone(outcome, size)
  \/ \E result \in {"book", "null", "throws"} : ImportDone(result)
  \/ \E result \in {"ok", "throws"} : SaveDone(result)
  \/ ~dewSync.enabled /\ pushLibrary
  \/ \E outcome \in Outcomes, found \in BOOLEAN : LibrarySearchDone(outcome, found)
  \/ \E load \in {"throws", "0", "1"} : LibraryLoadDone(load)
  \/ \E outcome \in Outcomes : LibraryUploadDone(outcome)
  \/ Tick

SpecCursors == InitCursors /\ [][NextCursors]_vars

\* settings.dewSync.lastLibrarySyncAt || undefined, 0 while unset.
LibraryCursor ==
  IF settingsDewSync = <<>> THEN 0 ELSE settingsDewSync[1].lastLibrarySyncAt

\* C17: no step lowers a cursor: the library cursor, the book's progress
\* cursor and the book's notes cursor each keep or raise their value.
C17_CursorsMonotonic ==
  [][/\ LibraryCursor' >= LibraryCursor
     /\ dewLastProgressSyncAt' >= dewLastProgressSyncAt
     /\ dewLastNotesSyncAt' >= dewLastNotesSyncAt]_vars

\* The library cursor was written at a later time than the first pass, and
\* a pull that failed at the fetch has run since.
C17_Witness ==
  /\ LibraryCursor >= 2
  /\ <<"listDocuments", "", "net">> \in LibEvents
  /\ pcLibrary = "idle"

\* The step in which listDocuments answers with a network-class failure.
ListFailsStep ==
  /\ pcLibrary = "list"
  /\ Len(libLog') > Len(libLog)
  /\ libLog'[Len(libLog) + 1] = <<"listDocuments", "", "net">>

\* C18: the step in which the fetch of a pull ends in a network-class
\* failure changes no local state: for listDocuments the library and the
\* stored settings with the library cursor, for getDocumentNotes the
\* book's notes, its synced-identifier map and its notes cursor.
C18_FetchFailureMutatesNothing ==
  [][/\ ListFailsStep =>
          /\ library' = library
          /\ settingsDewSync' = settingsDewSync
          /\ pcLibrary' = "idle"
     /\ NotesFetchDone("net", 0) =>
          /\ booknotes' = booknotes
          /\ dewSyncedNoteIds' = dewSyncedNoteIds
          /\ dewLastNotesSyncAt' = dewLastNotesSyncAt]_vars

\* A pull of a library that holds books and a cursor failed at the fetch.
C18_Witness ==
  /\ pcLibrary = "idle"
  /\ libLog = <<<<"listDocuments", "", "call">>, <<"listDocuments", "", "net">>>>
  /\ library # <<>>
  /\ LibraryCursor > 0

StoredSettings ==
  {<<>>} \cup
  {<<DewSyncSettings(enabled, apiKey, apiUrl, sync, sync, syncLibrary, 0)>> :
     enabled \in {"true", Missing}, apiKey \in {"sk", "", Missing},
     apiUrl \in {"https://dew", Missing}, sync \in {"true", Missing},
     syncLibrary \in {"true", Missing}}

Environments == {Env("", ""), Env("ek", ""), Env("ek", "https://env")}

\* The library hook over every stored record and environment, pulling
\* batches of at most one document.
InitSettings ==
  \E stored \in StoredSettings, e \in Environments :
    /\ ReaderInitWith(1, Settings(FALSE, FALSE, FALSE), "", NoProgress, 0, <<>>,
                      NoSynced, FALSE)
    /\ LibraryInitWith(stored, e, <<>>)

NextSettings ==
  \/ pullLibrary
  \/ \E outcome \in Outcomes, documents \in {<<>>, <<"x1">>} :
       LibraryListDone(outcome, documents)
  \/ \E outcome \in Outcomes, size \in {"0", "1"} : DownloadDone(outcome, size)
  \/ \E result \in {"book", "null", "throws"} : ImportDone(result)
  \/ \E result \in {"ok", "throws"} : SaveDone(result)

SpecSettings == InitSettings /\ [][NextSettings]_vars

\* C20: the settings a library pass resolved for itself have every field
\* populated, whatever the stored record and the environment were.
C20_ResolvedFullyPopulated ==
  libPass.kind # "none" =>
    \A f \in DOMAIN libPass.dewSync \ {"lastLibrarySyncAt"} :
      libPass.dewSync[f] # Missing

\* C21: an open with progress sync on triggers the progress pull: once
\* the open flow of the mounted hook has ended, pullProgressOnOpen has run.
C21_PullOncePerOpen ==
  (mounted /\ pcOpen = "done" /\ dewSync.enabled /\ dewSync.syncProgress) =>
    hasPulledProgressRef

\* C22: every progress pull leaves the book's progress cursor at the
\* current time, whether it applied the remote progress or not.
C22_ProgressPullAdvancesCursor ==
  [][ProgressPullStep => dewLastProgressSyncAt' = now]_vars

\* C23: a progress pull marks the book finished exactly when it applied
\* the remote progress, the remote status is completed and the book is
\* not finished yet; in every other case it leaves the reading status as
\* it was, so a finished book stays finished.
C23_StatusOnlyUpgraded ==
  [][ProgressPullStep =>
       IF /\ NewerAndAhead(remoteDocSeen', dewLastProgressSyncAt, progress)
          /\ remoteDocSeen'.readingStatus = "completed"
          /\ readingStatus # "finished"
       THEN readingStatus' = "finished"
       ELSE readingStatus' = readingStatus]_vars

\* A book an earlier pull marked finished was pulled again with a remote
\* snapshot that is ahead and says reading, and it is still finished.
C23_Witness ==
  /\ pcOpen = "done"
  /\ hasPulledProgressRef
  /\ readingStatus = "finished"
  /\ remoteDocSeen.readingStatus = "reading"
  /\ progress = <<remoteDocSeen.currentPage + 1, remoteDocSeen.totalPages>>
  /\ dewLastProgressSyncAt = now

\* C24: a notes pull whose fetch succeeded leaves the notes cursor at the
\* current time when it ends: after an empty batch, and after the merge
\* loop whether it changed a note or not.
C24_NotesPullAdvancesCursor ==
  [][/\ NotesFetchDone("ok", 0) => dewLastNotesSyncAt' = now
     /\ (pcNotesPull = "merge" /\ pcNotesPull' = "idle") =>
          dewLastNotesSyncAt' = now]_vars

\* A pull at a later time merged a batch that changed nothing: the local
\* note is as the user made it, and the cursor is at the current time.
C24_Witness ==
  /\ pcNotesPull = "idle"
  /\ hasPulledNotesRef
  /\ now > 1
  /\ dewLastNotesSyncAt = now
  /\ \E u \in Times : booknotes = <<LocalNote(u)>>

\* ------------------------------------------------- pull over unsynced notes
\* Notes sync alone on a linked book that holds a note the synced map does
\* not know: made in the reader and created remotely by a push that ended
\* before it recorded the pair.
InitNotesPullUnsynced ==
  \E t \in Times, u \in Times :
    /\ u <= t
    /\ InitWith(t, Settings(TRUE, FALSE, TRUE), "d1", NoProgress, 0,
                <<LocalNote(u)>>, NoSynced, FALSE)

NextNotesPullUnsynced ==
  \/ Mount
  \/ CheckDone("ok", NoDoc)
  \/ \E outcome \in Outcomes, size \in 0..1 : NotesFetchDone(outcome, size)
  \/ \E remoteNote \in PulledNotes({"r1"}, {"n1"}) : MergeStep(remoteNote)
  \/ MergeEnd
  \/ Tick

SpecNotesPullUnsynced == InitNotesPullUnsynced /\ [][NextNotesPullUnsynced]_vars

\* The local identifier a remote note is reconciled under.
LocalIdOf(remoteNote) ==
  IF remoteNote.metadata.leafNoteId # "" THEN remoteNote.metadata.leafNoteId
  ELSE ExternalId(remoteNote.id)

\* C25: when a notes pull ends, the persisted synced-identifier map holds
\* the pair (local id -> remote id) of the remote note it reconciled.
C25_ReconciledPairsRecorded ==
  [][(pcNotesPull = "merge" /\ pcNotesPull' = "idle" /\ lastRemote # NoRemote) =>
       dewSyncedNoteIds'[LocalIdOf(lastRemote)] = lastRemote.id]_vars

\* The turn merges a remote note whose metadata carries no origin id.
MergesExternal == MergeStepTaken /\ lastRemote'.metadata.leafNoteId = ""

\* Some local note is mapped to the remote note of the turn.
MappedLocally == \E l \in LocalNoteIds : work.syncedIds[l] = lastRemote'.id

\* C26: a remote note without an origin id is inserted (with an empty
\* anchor) only if no local note is mapped to its remote id in the synced-id
\* map; if one is mapped, the annotation set is left unchanged.
C26_ExternalInsertedOnlyIfUnmapped ==
  [][(MergesExternal /\ MappedLocally) => work'.booknotes = work.booknotes]_vars

\* ------------------------------------------------------- notes selection
\* The notes a store can hold under one id: of a pushed kind or a bookmark,
\* deleted or not, with or without text.
StoredNotes(id) ==
  {BookNote(id, type, "cfi", text, 1, deletedAt) :
     type \in {"annotation", "excerpt", "bookmark"}, text \in {"", "mine"},
     deletedAt \in 0..1}

\* The remote id the server gives the note of a local id.
RemoteIdOf(id) == IF id = "n1" THEN "r1" ELSE "r2"

\* Notes sync alone on a linked book whose store holds a note of any kind,
\* pushed before or not, alone or followed by an annotation that awaits its
\* push; the book is opened and closed, the timer elapses, the transport
\* answers in every way, one pass at a time.
InitNotesSelect ==
  \E n1 \in StoredNotes("n1"), s1 \in {"", "r1"} :
    \/ InitWith(1, Settings(TRUE, FALSE, TRUE), "d1", NoProgress, 0, <<n1>>,
                [NoSynced EXCEPT !["n1"] = s1], FALSE)
    \/ InitWith(1, Settings(TRUE, FALSE, TRUE), "d1", NoProgress, 0,
                <<n1, BookNote("n2", "annotation", "cfi", "mine", 1, 0)>>,
                [NoSynced EXCEPT !["n1"] = s1], FALSE)

NextNotesSelect ==
  \/ Mount
  \/ CheckDone("ok", NoDoc)
  \/ \E outcome \in Outcomes : NotesFetchDone(outcome, 0)
  \/ notesPasses = <<>> /\ NotesTimerFire
  \/ \E outcome \in Outcomes, answered \in BOOLEAN :
       /\ notesPasses # <<>>
       /\ AddNoteDone(1, outcome,
                      IF outcome = "ok" /\ answered
                      THEN RemoteIdOf(notesPasses[1].newNotes[notesPasses[1].i].id)
                      ELSE "")
  \/ \E outcome \in Outcomes : UpdateNoteDone(1, outcome)
  \/ notesPasses = <<>> /\ Unmount

SpecNotesSelect == InitNotesSelect /\ [][NextNotesSelect]_vars

\* The pending notes call is run, by the timer or by the teardown.
NotesCallRun == notesTimer /\ ~notesTimer'

\* The notes of a pass, as a set.
PassNotes(pass) == {pass.newNotes[i] : i \in 1..Len(pass.newNotes)}

\* C27: a notes push pass sends exactly the notes of the store that are an
\* annotation or an excerpt, are not deleted, have text and are not in the
\* synced-id map; no pass in flight holds a note failing one of the four
\* conditions; a run that finds no such note starts no pass and writes
\* nothing to the store.
C27_PushSelection ==
  [][/\ \A k \in 1..Len(notesPasses') : \A n \in PassNotes(notesPasses'[k]) :
          /\ n.type = "annotation" \/ n.type = "excerpt"
          /\ n.deletedAt = 0
          /\ n.text # ""
          /\ notesPasses'[k].syncedIds[n.id] = ""
     /\ NotesCallRun =>
          IF PendingNoteIds = {}
          THEN /\ notesPasses' = notesPasses
               /\ UNCHANGED <<booknotes, dewSyncedNoteIds, dewLastNotesSyncAt>>
          ELSE /\ Len(notesPasses') = Len(notesPasses) + 1
               /\ PassNotes(notesPasses'[Len(notesPasses')]) =
                    {booknotes[i] : i \in {j \in 1..Len(booknotes) :
                                             booknotes[j].id \in PendingNoteIds}}]_vars

\* A pass was started over a store of two notes and holds the one that
\* awaits its push; the other one is a bookmark, deleted, without text or
\* pushed before.
C27_Witness ==
  /\ Len(booknotes) = 2
  /\ Len(notesPasses) = 1
  /\ Len(notesPasses[1].newNotes) = 1
  /\ notesPasses[1].newNotes[1].id = "n2"
  /\ notesPasses[1].step = "add"
  /\ \/ booknotes[1].type = "bookmark"
     \/ booknotes[1].deletedAt # 0
     \/ booknotes[1].text = ""
     \/ dewSyncedNoteIds["n1"] # ""

\* The pass in flight and the note its loop is at.
ThePass == notesPasses[1]
TheNote == ThePass.newNotes[ThePass.i]

\* The pass has ended with the step.
PassEnds == notesPasses # <<>> /\ notesPasses' = <<>>

\* After the step the map of the pass (the persisted one, once the pass has
\* ended) holds value v for the note the loop was at, and what the pass had
\* recorded for the notes before it.
RecordedAs(v) ==
  IF PassEnds
  THEN /\ dewSyncedNoteIds'[TheNote.id] = v
       /\ \A n \in PassNotes(ThePass) :
            n.id # TheNote.id => dewSyncedNoteIds'[n.id] = ThePass.updatedSyncedIds[n.id]
  ELSE /\ notesPasses'[1].updatedSyncedIds[TheNote.id] = v
       /\ notesPasses'[1].step = "add"
       /\ notesPasses'[1].i = ThePass.i + 1
       /\ UNCHANGED dewSyncedNoteIds

\* C28: for each note of a notes push the create call comes first; the
\* metadata call is made later and only if the create returned an id; the
\* map records local id -> remote id, or local id -> local id when the
\* create succeeded without an id; a failed create records nothing, so the
\* note still awaits its push when the pass has ended.
C28_CreateThenMetadata ==
  [][/\ Len(notesPasses') > Len(notesPasses) =>
          /\ notesPasses'[Len(notesPasses')].step = "add"
          /\ notesPasses'[Len(notesPasses')].i = 1
     /\ \A outcome \in Outcomes, remoteId \in {"", "r1", "r2"} :
          (notesPasses # <<>> /\ AddNoteDone(1, outcome, remoteId)) =>
            IF outcome = "ok" /\ remoteId # ""
            THEN /\ notesPasses'[1].step = "meta"
                 /\ notesPasses'[1].noteId = remoteId
                 /\ notesPasses'[1].i = ThePass.i
                 /\ notesPasses'[1].updatedSyncedIds = ThePass.updatedSyncedIds
                 /\ UNCHANGED dewSyncedNoteIds
            ELSE IF outcome = "ok"
            THEN RecordedAs(TheNote.id)
            ELSE /\ RecordedAs("")
                 /\ PassEnds => TheNote.id \in PendingNoteIds'
     /\ \A outcome \in Outcomes :
          (notesPasses # <<>> /\ UpdateNoteDone(1, outcome)) =>
            /\ ThePass.noteId # ""
            /\ RecordedAs(ThePass.noteId)]_vars

\* A second pass is at the create call of n1 again: the pass before it
\* created n2 without getting an id (the map holds the placeholder) and
\* failed to create n1.
C28_Witness ==
  /\ Len(notesPasses) = 1
  /\ notesPasses[1].step = "add"
  /\ Len(notesPasses[1].newNotes) = 1
  /\ notesPasses[1].newNotes[1].id = "n1"
  /\ dewSyncedNoteIds["n1"] = ""
  /\ dewSyncedNoteIds["n2"] = "n2"

\* ---------------------------------------------------------- re-import
\* Libraries holding a deleted book whose file is a remote document's, with
\* a reading status of its own or none.
DeletedWithStatus ==
  {<<Book("x1", "Dune", "Herbert", 1, status)>> : status \in {"", "reading", "finished"}}
  \cup {<<Book("x3", " emma", "", 1, status)>> : status \in {"", "unread"}}

InitImport ==
  \E lib \in DeletedWithStatus :
    /\ ReaderInitWith(1, Settings(FALSE, FALSE, FALSE), "", NoProgress, 0, <<>>,
                      NoSynced, FALSE)
    /\ LibraryInitWith(<<StoredOn>>, Env("", ""), lib)

NextImport ==
  \/ pullLibrary
  \/ \E outcome \in Outcomes, documents \in Batches : LibraryListDone(outcome, documents)
  \/ \E outcome \in Outcomes, size \in {"0", "1"} : DownloadDone(outcome, size)
  \/ \E result \in {"book", "null", "throws"} : ImportDone(result)
  \/ \E result \in {"ok", "throws"} : SaveDone(result)
  \/ Tick

SpecImport == InitImport /\ [][NextImport]_vars

\* The import of the step returns a record of the library.
ImportsHeldBook ==
  /\ ImportDone("book")
  /\ HashIndex(library, Head(libPass.documents)) # 0

\* C29: an import writes the remote reading status onto the imported book
\* only if that book has none yet; a reading status the book already has is
\* left unchanged.
C29_OverlayOnlyWhenLocalHasNone ==
  [][ImportsHeldBook =>
       LET held == library[HashIndex(library, Head(libPass.documents))] IN
       held.readingStatus # "" =>
         library'[HashIndex(library, Head(libPass.documents))].readingStatus =
           held.readingStatus]_vars

\* ------------------------------------------------------- pull snapshot
\* Library pulls with the time of the list kept in the pass, the clock
\* ticking while the documents are downloaded and imported.
InitSnapshot ==
  \E lib \in Libraries :
    /\ ReaderInitWith(1, Settings(FALSE, FALSE, FALSE), "", NoProgress, 0, <<>>,
                      NoSynced, TRUE)
    /\ LibraryInitWith(<<StoredOn>>, Env("", ""), lib)

NextSnapshot ==
  \/ pullLibrary
  \/ \E outcome \in Outcomes, documents \in Batches : LibraryListDone(outcome, documents)
  \/ \E outcome \in Outcomes, size \in {"0", "1"} : DownloadDone(outcome, size)
  \/ \E result \in {"book", "null", "throws"} : ImportDone(result)
  \/ \E result \in {"ok", "throws"} : SaveDone(result)
  \/ Tick

SpecSnapshot == InitSnapshot /\ [][NextSnapshot]_vars

\* The step writes the library cursor.
CursorWritten ==
  /\ libLog' # libLog
  /\ libLog'[Len(libLog')] = <<"lastLibrarySyncAt", "", "write">>

\* The time at which the list of the pass in flight was taken.
SnapshotTime == IF pcLibrary = "list" THEN now ELSE libPass.listedAt

\* C30: a library pull writes the cursor only after the last document of
\* the batch was processed, and the cursor it writes is the time at which
\* the document list was taken.
C30_CursorIsSnapshotTime ==
  [][CursorWritten =>
       /\ pcLibrary' = "idle"
       /\ libPass'.documents = <<>>
       /\ LibraryCursor' = SnapshotTime]_vars

\* -------------------------------------------------------- two instances
\* Two hook instances of one book, linked or not, with progress and notes
\* sync off: each is mounted once and runs its open flow against a
\* transport that may fail in either way at each call.
InitInstances ==
  \E docId \in {"", "d1"} :
    InitWith(1, Settings(TRUE, FALSE, FALSE), docId, NoProgress, 0, <<>>, NoSynced, FALSE)

NextInstances ==
  \/ Mount
  \/ \E outcome \in Outcomes : CheckDone(outcome, NoDoc)
  \/ \E outcome \in Outcomes, foundId \in {"", "d1"} : SearchDone(outcome, foundId)
  \/ \E load \in {"throws", "0", "1"} : LoadDone(load)
  \/ \E outcome \in Outcomes, id \in DocIds : UploadDone(outcome, id)
  \/ OtherInstance

SpecInstances == InitInstances /\ [][NextInstances]_vars

\* C31: a negative existence check clears the stored link before the search
\* it starts; the book holds one link at most; a new link is written only
\* onto an absent link.
C31_LinkClearedBeforeRelink ==
  [][/\ (pcOpen = "check" /\ pcOpen' = "search") => dewDocumentId' = ""
     /\ dewDocumentId' \in {""} \cup DocIds
     /\ (dewDocumentId' # dewDocumentId /\ dewDocumentId' # "") => dewDocumentId = ""]_vars

\* doUpload of an instance awaits the transport or the file loader.
InFlight(pc) == pc \in {"check", "search", "load", "upload"}

\* The open flow of an instance has created a remote document.
Created(log) == \E i \in 1..Len(log) : log[i] = <<"uploadDocument", "ok">>

\* C34: with two hook instances on one book, at most one open flow of the
\* book is in flight and at most one remote document is created for it.
C34_SingleFlightAcrossInstances ==
  /\ ~(InFlight(pcOpen) /\ InFlight(peer.pcOpen))
  /\ ~(Created(openLog) /\ Created(peer.openLog))

\* ------------------------------------------------------ library changes
\* The book the user imports.
UserBook == Book("u1", "Mine", "", 0, "")

\* An empty library with library sync on: the interval pulls, the user
\* imports a book at any moment and starts reading it, the transport of the pull answers in every
\* way, the transport of the push finds no title on the server and takes
\* every upload.
InitLibraryChange ==
  /\ ReaderInitWith(1, Settings(FALSE, FALSE, FALSE), "", NoProgress, 0, <<>>,
                    NoSynced, FALSE)
  /\ LibraryInitWith(<<StoredOn>>, Env("", ""), <<>>)

NextLibraryChange ==
  \/ pullLibrary
  \/ \E outcome \in Outcomes, documents \in Batches : LibraryListDone(outcome, documents)
  \/ \E outcome \in Outcomes, size \in {"0", "1"} : DownloadDone(outcome, size)
  \/ \E result \in {"book", "null", "throws"} : ImportDone(result)
  \/ \E result \in {"ok", "throws"} : SaveDone(result)
  \/ LibraryAdd(UserBook)
  \/ LibraryUpdate(UserBook.hash, "reading")
  \/ LibrarySearchDone("ok", FALSE)
  \/ LibraryLoadDone("1")
  \/ LibraryUploadDone("ok")

SpecLibraryChange == InitLibraryChange /\ [][NextLibraryChange]_vars

\* The library holds the user's book.
HoldsUserBook == HashIndex(library, UserBook.hash) # 0

\* C32: a library change made while a pass is in flight is not lost: once
\* the hook is at rest again, a push pass has covered the changed library
\* (here: the user's book has been uploaded).
C32_ChangeInFlightNotLost ==
  (pcLibrary = "idle" /\ HoldsUserBook) => UserBook.title \in remoteLibrary

\* The step is the library write of processRemoteDocument.
ImportWrites == pcLibrary = "import" /\ pcLibrary' = "save"

\* C33: the library write of an import is made onto the library the store
\* holds at that moment: every book of it other than the imported one, a
\* book another actor added while the download or the import was in flight
\* included, is in the library after the write, unchanged.
C33_WriteOntoLatestLibrary ==
  [][ImportWrites =>
       \A i \in 1..Len(library) :
         library[i].hash # Head(libPass.documents) =>
           /\ i <= Len(library')
           /\ library'[i] = library[i]]_vars

\* The pull has written an imported book into the library, which holds the
\* book the user added and began to read after the pass had listed the
\* library.
C33_Witness ==
  /\ pcLibrary = "save"
  /\ HoldsUserBook
  /\ HashIndex(libPass.currentLibrary, UserBook.hash) = 0
  /\ library[HashIndex(library, UserBook.hash)].readingStatus = "reading"
  /\ HashIndex(library, Head(libPass.documents)) # 0

\* The pass has had addNote answered with success for the note of id n.
CreatedBy(pass, n) ==
  \/ pass.updatedSyncedIds[n] # pass.syncedIds[n]
  \/ pass.step = "meta" /\ pass.newNotes[pass.i].id = n

\* C35: a local note is created remotely at most once: when addNote of a
\* pass succeeds for a note, no pass, ended or in flight, has had addNote
\* succeed for that note before.
C35_NoteCreatedOnce ==
  [][\A k \in 1..Len(notesPasses) :
       AddNoteDone(k, "ok", "r1") =>
         LET n == notesPasses[k].newNotes[notesPasses[k].i].id IN
         /\ dewSyncedNoteIds[n] = ""
         /\ \A j \in (1..Len(notesPasses)) \ {k} : ~CreatedBy(notesPasses[j], n)]_vars

\* ------------------------------------------------- notes: pull and push
\* A linked book with one note that awaits its push: the open pulls a batch
\* of one remote note while the notes timer runs one push pass at a time
\* and the user makes a second note.
InitNotesRace ==
  InitWith(1, Settings(TRUE, FALSE, TRUE), "d1", NoProgress, 0, <<LocalNote(1)>>,
           NoSynced, FALSE)

NextNotesRace ==
  \/ Mount
  \/ CheckDone("ok", NoDoc)
  \/ \E outcome \in Outcomes, size \in 0..1 : NotesFetchDone(outcome, size)
  \/ \E remoteNote \in PulledNotes({"r2"}, {"n1"}) : MergeStep(remoteNote)
  \/ MergeEnd
  \/ NoteAdd("n2", "mine")
  \/ notesPasses = <<>> /\ NotesTimerFire
  \/ \E outcome \in Outcomes : AddNoteDone(1, outcome, IF outcome = "ok" THEN "r1" ELSE "")
  \/ \E outcome \in Outcomes : UpdateNoteDone(1, outcome)

SpecNotesRace == InitNotesRace /\ [][NextNotesRace]_vars

\* The pull pass writes its result with the step.
PullWrites == pcNotesPull = "merge" /\ pcNotesPull' = "idle"

\* C36: a notes pull pass does not remove or revert a local note it did not
\* merge: every note of the store that the batch does not speak of is in
\* the store, as it was, after the pass has written.
C36_PullKeepsUnmergedNotes ==
  [][PullWrites =>
       \A i \in 1..Len(booknotes) :
         booknotes[i].id # LocalIdOf(lastRemote) =>
           \E j \in 1..Len(booknotes') : booknotes'[j] = booknotes[i]]_vars

\* C37: an entry of the synced-id map is never lost: a local id the map
\* holds an entry for has an entry after every step of a push pass and of a
\* pull pass.
C37_MapEntriesKept ==
  [][\A id \in LocalNoteIds :
       dewSyncedNoteIds[id] # "" => dewSyncedNoteIds'[id] # ""]_vars

\* ------------------------------------------- progress: pull and push
\* A linked book on page OpenPage whose cursor is OpenCursor is opened once;
\* the remote document is on the last page and was updated after the
\* cursor.  The reader turns to the page between while the existence check
\* is awaited, so that the debounced push runs beside the open flow.
OpenPage == 1
OpenCursor == 0
AheadDocs ==
  {d \in RemoteDocs : /\ d.updatedAt > OpenCursor
                      /\ d.currentPage = MaxPage - 1
                      /\ d.totalPages = MaxPage}

InitProgressRace ==
  InitWith(1, Settings(TRUE, TRUE, FALSE), "d1", <<OpenPage, MaxPage>>, OpenCursor,
           <<>>, NoSynced, FALSE)

NextProgressRace ==
  \/ Mount
  \/ \E remoteDoc \in AheadDocs : remoteDoc.updatedAt <= now /\ CheckDone("ok", remoteDoc)
  \/ PageTurn(OpenPage + 1)
  \/ ProgressTimerFire
  \/ \E outcome \in Outcomes : ProgressPushDone(outcome)
  \/ Tick

SpecProgressRace == InitProgressRace /\ [][NextProgressRace]_vars

\* The open flow completes with the step.
OpenCompletes == pcOpen = "check" /\ pcOpen' = "done"

\* C38: a book opened while the remote snapshot is newer than the cursor
\* and ahead of the local page is on the remote page when the open flow has
\* completed, whatever the debounced progress push did meanwhile.
C38_RemoteAheadApplied ==
  [][(/\ OpenCompletes
      /\ remoteDocSeen'.updatedAt > OpenCursor
      /\ ToLocalPage(remoteDocSeen'.currentPage) > OpenPage)
       => LocalCurrentPage(progress') = ToLocalPage(remoteDocSeen'.currentPage)]_vars

\* ------------------------------------------------- the syncing guard
\* C39: within one library hook, at most one pass holds the syncing guard:
\* the guard is held exactly while a pass is in flight, a pass in flight is
\* never replaced by a pass of the other kind, and every path on which a
\* pass ends releases the guard, so that a later pass can start.
C39_OnePassHoldsGuard ==
  [][/\ syncingRef' <=> pcLibrary' # "idle"
     /\ pcLibrary # "idle" => libPass'.kind \in {libPass.kind, "none"}
     /\ (pcLibrary # "idle" /\ pcLibrary' = "idle") => (~syncingRef' /\ libPass'.kind = "none")
     /\ pcLibrary' \in {"list", "download", "import", "save"} => libPass'.kind = "pull"
     /\ pcLibrary' \in {"search", "load", "upload"} => libPass'.kind = "push"]_vars

\* A push pass that ended on an exception of the file loader, after a pull
\* pass that imported a document, has left the guard free.
C39_Witness ==
  /\ pcLibrary = "idle"
  /\ ~syncingRef
  /\ libPass.imported # {}
  /\ libLog # <<>>
  /\ libLog[Len(libLog)][1] = "loadBookContent"
  /\ libLog[Len(libLog)][3] = "throws"

\* ------------------------------------------------- the settings write
\* What a reader of the stored settings finds in field f: the default
\* while settings.dewSync is undefined.
StoredField(stored, f) ==
  IF stored = <<>> THEN DEFAULT_DEW_SYNC_SETTINGS[f] ELSE stored[1][f]

\* C40: the only field of the persisted settings a library pull pass
\* changes is lastLibrarySyncAt: every other field is after the write of
\* the pass what it was right before it.
C40_OnlyCursorWritten ==
  [][settingsDewSync' # settingsDewSync =>
       \A f \in DOMAIN DEFAULT_DEW_SYNC_SETTINGS \ {"lastLibrarySyncAt"} :
         StoredField(settingsDewSync', f) = StoredField(settingsDewSync, f)]_vars

====
